---- MODULE Spec2Model ----
(***************************************************************************)
(* Model of codoc-webapp: the credential-rotating Groq client              *)
(* (src/app/api/groq/groq-client.ts), the GitHub tree endpoint             *)
(* (src/app/api/github/tree/route.ts) with buildFileTree, the GitHub       *)
(* content endpoint (src/app/api/github/content/route.ts), the outline     *)
(* endpoint (src/app/api/groq/generate-outline/route.ts), and the page:    *)
(* Home with GithubForm and DocumentationLayout                            *)
(* (src/app/components/DocumentationLayout.tsx).                           *)
(*                                                                         *)
(* JavaScript runs each handler to its next await without interruption,    *)
(* so every action below is the code between two awaits.                   *)
(***************************************************************************)
EXTENDS Integers, Sequences, FiniteSets, TLC

(***************************************************************************)
(* Bounds of the model                                                     *)
(***************************************************************************)
\* number of sendToGroq calls that may be outstanding at once
NumCalls == 2
\* longest flat entry list handed to buildFileTree
MaxItems == 3
\* cap on the attempts one call may make when calls interleave
MaxAttempts == 5
\* longest answer of the LLM to the outline endpoint, in tokens
MaxTextLen == 5
\* number of runs of generateChapterContent that may be under way at once
NumClicks == 1
\* number of runs of fetchFileContent that may be under way at once
NumViews == 2
\* most root entries of a repository loaded in a session of the page
MaxSessionFiles == 3
\* most root entries of a repository whose key files are collected
MaxTreeFiles == 10

(***************************************************************************)
(* Program constants                                                       *)
(***************************************************************************)
\* getApiKeys reads four environment variables
NumKeySlots == 4

VARIABLES
    \* ---- groq-client.ts ----
    nKeys,               \* getApiKeys().length, fixed by the environment
    currentApiKeyIndex,  \* module-level let, line 5
    allKeysExhausted,    \* module-level let, line 6
    gpc,                 \* per call: "idle", "fetching" or "done"
    gkey,                \* per call: the credential of the outstanding fetch
    gtried,              \* per call: the credentials its fetches have used
    gattempts,           \* per call: the number of fetches it has issued
    glast,               \* per call: what its latest fetch was answered
    gall429,             \* per call: every fetch so far was answered 429
    gresult,             \* per call: the GroqResponse it returned
    \* ---- buildFileTree (github/tree/route.ts) ----
    titems,              \* the flat entry list handed to buildFileTree
    tbuilt,              \* whether buildFileTree has returned
    ttree,               \* what it returned: the root list and the node objects
    \* ---- github/tree/route.ts and github/content/route.ts: POST ----
    hreq,                \* the inbound request: endpoint and JSON body
    hpc,                 \* "idle", the upstream call awaited, or "done"
    hcalls,              \* the upstream GitHub calls issued for the request
    hlast,               \* what the latest upstream call was answered
    hctx,                \* owner, repo and branch the handler holds
    hresp,               \* the response of the endpoint
    \* ---- groq/generate-outline/route.ts: POST ----
    oreq,                \* the inbound request: what its body holds
    opc,                 \* "idle", "llm" while sendToGroq is awaited, or "done"
    ocalls,              \* the top-level sendToGroq calls made for the request
    ollm,                \* what sendToGroq returned
    oresp,               \* the response of the endpoint
    \* ---- page.tsx (Home) ----
    isLoading,           \* useState, line 185
    treeFetches,         \* the fetches of /api/github/tree not yet settled
    homeError,           \* error of useState, line 186
    repoInfo,            \* useState, line 184
    \* ---- DocumentationLayout.tsx ----
    docState,            \* useState, lines 133-138
    activeContent,       \* useState, lines 122-124
    batch,               \* the run of generateDocumentation and its locals
    clicks,              \* the runs of generateChapterContent and their locals
    views,               \* the runs of fetchFileContent and their locals
    selected,            \* the file the user clicked last, none before a click
    consoleLog,          \* what console.error has written
    failed               \* the fetch of the page that failed in the last step

groqVars == <<nKeys, currentApiKeyIndex, allKeysExhausted, gpc, gkey, gtried,
              gattempts, glast, gall429, gresult>>

treeVars == <<titems, tbuilt, ttree>>

githubVars == <<hreq, hpc, hcalls, hlast, hctx, hresp>>

outlineVars == <<oreq, opc, ocalls, ollm, oresp>>

uiVars == <<isLoading, treeFetches, homeError, repoInfo, docState, activeContent,
            batch, clicks, views, selected, consoleLog, failed>>

vars == <<groqVars, treeVars, githubVars, outlineVars, uiVars>>

(***************************************************************************)
(* groq-client.ts                                                          *)
(***************************************************************************)
Calls == 1..NumCalls

NoKey == -1

\* HTTP statuses the upstream may answer with
Statuses == {200, 401, 429, 500}

\* the outcomes of `await fetch(...)`: a rejection, or a response with a
\* status and a body that does or does not hold choices[0].message.content.
\* A response that arrived is read to its end: response.text() and
\* response.json() return.
FetchOutcomes ==
    {[kind |-> "rejected", status |-> 0, content |-> FALSE]}
    \cup {[kind |-> "response", status |-> s, content |-> FALSE] : s \in Statuses}
    \cup {[kind |-> "response", status |-> 200, content |-> TRUE]}

NoOutcome == [kind |-> "none", status |-> 0, content |-> FALSE]

\* Response.ok
ResponseOk(status) == status >= 200 /\ status <= 299

\* GroqResponse values
Success == [success |-> TRUE, error |-> "", status |-> 0]
NoCredentials ==
    [success |-> FALSE, error |-> "No GROQ API keys configured", status |-> 0]
AllCredentialsExhausted ==
    [success |-> FALSE,
     error |-> "All API keys exhausted due to rate limiting. Please try again later.",
     status |-> 0]
UpstreamError(s) == [success |-> FALSE, error |-> "Groq API error: ", status |-> s]
EmptyResponse ==
    [success |-> FALSE, error |-> "No content in Groq response", status |-> 0]
ThrownError == [success |-> FALSE, error |-> "error.message", status |-> 0]
NoResult == [success |-> FALSE, error |-> "(pending)", status |-> 0]

\* the rotation state as a value: [idx |-> currentApiKeyIndex, exh |-> allKeysExhausted]
RotationState == [idx |-> currentApiKeyIndex, exh |-> allKeysExhausted]

getApiKeys == nKeys

getCurrentApiKey_NoEmptyCheck(st) ==
    LET st2 == IF st.idx >= getApiKeys THEN [idx |-> 0, exh |-> TRUE] ELSE st
    IN  [st |-> st2, key |-> IF getApiKeys = 0 THEN NoKey ELSE st2.idx]

\* returns the credential (its position in the list) or NoKey for null,
\* with the rotation state it leaves
getCurrentApiKey(st) ==
    IF getApiKeys = 0
    THEN [st |-> st, key |-> NoKey]
    ELSE LET st2 == IF st.idx >= getApiKeys
                    THEN [idx |-> 0, exh |-> TRUE]
                    ELSE st
         IN  [st |-> st2, key |-> st2.idx]

switchToNextKey_WrapSilently(st) ==
    LET i == st.idx + 1
    IN  IF i >= getApiKeys
        THEN [st |-> [idx |-> 0, exh |-> st.exh], switched |-> TRUE]
        ELSE [st |-> [idx |-> i, exh |-> st.exh], switched |-> TRUE]

\* returns whether it switched, with the rotation state it leaves
switchToNextKey(st) ==
    LET i == st.idx + 1
    IN  IF i >= getApiKeys
        THEN [st |-> [idx |-> 0, exh |-> TRUE], switched |-> FALSE]
        ELSE [st |-> [idx |-> i, exh |-> st.exh], switched |-> TRUE]

isRateLimited_AnyError(status, exh) == ~ResponseOk(status) /\ ~exh

\* the condition of line 125
isRateLimited(status, exh) == status = 429 /\ ~exh

\* return of a GroqResponse from call c, leaving rotation state st
Return(c, st, r) ==
    /\ currentApiKeyIndex' = st.idx
    /\ allKeysExhausted' = st.exh
    /\ gpc' = [gpc EXCEPT ![c] = "done"]
    /\ gresult' = [gresult EXCEPT ![c] = r]
    /\ gkey' = [gkey EXCEPT ![c] = NoKey]

\* attemptRequest up to its `await fetch`, entered with rotation state st by
\* a call that has used the credentials `tried` in `n` fetches so far
attemptRequest(c, st, tried, n) ==
    LET g == getCurrentApiKey(st)
    IN  IF g.key = NoKey
        THEN /\ Return(c, g.st, NoCredentials)
             /\ gtried' = [gtried EXCEPT ![c] = tried]
             /\ gattempts' = [gattempts EXCEPT ![c] = n]
        ELSE /\ currentApiKeyIndex' = g.st.idx
             /\ allKeysExhausted' = g.st.exh
             /\ gpc' = [gpc EXCEPT ![c] = "fetching"]
             /\ gkey' = [gkey EXCEPT ![c] = g.key]
             /\ gtried' = [gtried EXCEPT ![c] = tried \cup {g.key}]
             /\ gattempts' = [gattempts EXCEPT ![c] = n + 1]
             /\ gresult' = [gresult EXCEPT ![c] = NoResult]

sendToGroq_KeepsFlag(c) ==
    /\ gpc[c] # "fetching"
    /\ glast' = [glast EXCEPT ![c] = NoOutcome]
    /\ gall429' = [gall429 EXCEPT ![c] = TRUE]
    /\ attemptRequest(c, RotationState, {}, 0)
    /\ UNCHANGED nKeys

sendToGroq_FromFirstKey(c) ==
    /\ gpc[c] # "fetching"
    /\ glast' = [glast EXCEPT ![c] = NoOutcome]
    /\ gall429' = [gall429 EXCEPT ![c] = TRUE]
    /\ attemptRequest(c, [idx |-> 0, exh |-> FALSE], {}, 0)
    /\ UNCHANGED nKeys

\* sendToGroq: a top-level call begins and runs to its first await
sendToGroq(c) ==
    /\ gpc[c] # "fetching"
    /\ glast' = [glast EXCEPT ![c] = NoOutcome]
    /\ gall429' = [gall429 EXCEPT ![c] = TRUE]
    /\ attemptRequest(c, [idx |-> currentApiKeyIndex, exh |-> FALSE], {}, 0)
    /\ UNCHANGED nKeys

\* the continuation of attemptRequest after `await fetch` settles with o
fetchSettles(c, o) ==
    /\ gpc[c] = "fetching"
    /\ glast' = [glast EXCEPT ![c] = o]
    /\ gall429' = [gall429 EXCEPT ![c] = @ /\ o.status = 429]
    /\ UNCHANGED nKeys
    /\ IF o.kind = "rejected"
       THEN Return(c, RotationState, ThrownError) /\ UNCHANGED <<gtried, gattempts>>
       ELSE IF isRateLimited(o.status, allKeysExhausted)
       THEN LET s == switchToNextKey(RotationState)
            IN  IF s.switched
                THEN /\ gattempts[c] < MaxAttempts
                     /\ attemptRequest(c, s.st, gtried[c], gattempts[c])
                ELSE /\ Return(c, s.st, AllCredentialsExhausted)
                     /\ UNCHANGED <<gtried, gattempts>>
       ELSE IF ~ResponseOk(o.status)
       THEN /\ Return(c, RotationState, UpstreamError(o.status))
            /\ UNCHANGED <<gtried, gattempts>>
       ELSE IF ~o.content
       THEN Return(c, RotationState, EmptyResponse) /\ UNCHANGED <<gtried, gattempts>>
       ELSE Return(c, RotationState, Success) /\ UNCHANGED <<gtried, gattempts>>

\* a top-level call that begins while no other call is outstanding
sendToGroqAlone(c) ==
    /\ \A d \in Calls : gpc[d] # "fetching"
    /\ sendToGroq(c)

\* the caller whose calls follow one another
SoleCaller == CHOOSE c \in Calls : \A d \in Calls : c <= d

Settle(c) == \E o \in FetchOutcomes : fetchSettles(c, o)

(***************************************************************************)
(* Strings: a string is the sequence of its characters                     *)
(***************************************************************************)
\* String.prototype.split with a one-character separator
RECURSIVE split(_, _)
split(s, sep) ==
    IF \A i \in 1..Len(s) : s[i] # sep
    THEN <<s>>
    ELSE LET k == CHOOSE i \in 1..Len(s) :
                    s[i] = sep /\ \A j \in 1..(i - 1) : s[j] # sep
         IN  <<SubSeq(s, 1, k - 1)>> \o split(SubSeq(s, k + 1, Len(s)), sep)

\* Array.prototype.join with a one-character separator
RECURSIVE join(_, _)
join(parts, sep) ==
    IF Len(parts) = 0 THEN <<>>
    ELSE IF Len(parts) = 1 THEN parts[1]
    ELSE parts[1] \o <<sep>> \o join(Tail(parts), sep)

\* the collation order of the characters used in paths
CharRank(ch) ==
    CASE ch = "/" -> 0
      [] ch = "a" -> 1
      [] ch = "b" -> 2
      [] ch = "c" -> 3

\* String.prototype.localeCompare: negative, zero or positive
RECURSIVE localeCompare(_, _)
localeCompare(a, b) ==
    IF Len(a) = 0 /\ Len(b) = 0 THEN 0
    ELSE IF Len(a) = 0 THEN -1
    ELSE IF Len(b) = 0 THEN 1
    ELSE IF CharRank(a[1]) < CharRank(b[1]) THEN -1
    ELSE IF CharRank(a[1]) > CharRank(b[1]) THEN 1
    ELSE localeCompare(Tail(a), Tail(b))

(***************************************************************************)
(* github/tree/route.ts: buildFileTree                                     *)
(***************************************************************************)
\* the comparator of the sort, lines 47-54
compareItems(a, b) ==
    LET aDepth == Len(split(a.path, "/"))
        bDepth == Len(split(b.path, "/"))
    IN  IF aDepth # bDepth THEN aDepth - bDepth
        ELSE IF a.type = "tree" /\ b.type # "tree" THEN -1
        ELSE IF a.type # "tree" /\ b.type = "tree" THEN 1
        ELSE localeCompare(a.path, b.path)

\* Array.prototype.sort is stable: x goes after every element that does not
\* compare greater than it
insertSorted(sorted, x) ==
    LET after == {j \in 1..Len(sorted) : compareItems(sorted[j], x) > 0}
        k == IF after = {} THEN Len(sorted) + 1
             ELSE CHOOSE j \in after : \A j2 \in after : j <= j2
    IN  SubSeq(sorted, 1, k - 1) \o <<x>> \o SubSeq(sorted, k, Len(sorted))

RECURSIVE sortFrom(_, _, _)
sortFrom(items, i, sorted) ==
    IF i > Len(items) THEN sorted
    ELSE sortFrom(items, i + 1, insertSorted(sorted, items[i]))

sortedItems_InputOrder(items) == items

\* [...items].sort(...)
sortedItems(items) == sortFrom(items, 1, <<>>)

\* the value of the optional `children` property
Undefined == [defined |-> FALSE, list |-> <<>>]
EmptyArray == [defined |-> TRUE, list |-> <<>>]

newNode_ChildrenAlways(item) ==
    LET pathParts == split(item.path, "/")
    IN  [id |-> item.sha,
         name |-> pathParts[Len(pathParts)],
         type |-> IF item.type = "tree" THEN "folder" ELSE "file",
         path |-> item.path,
         children |-> EmptyArray]

\* the FileNode made for an entry, lines 57-67
newNode(item) ==
    LET pathParts == split(item.path, "/")
    IN  [id |-> item.sha,
         name |-> pathParts[Len(pathParts)],
         type |-> IF item.type = "tree" THEN "folder" ELSE "file",
         path |-> item.path,
         children |-> IF item.type = "tree" THEN EmptyArray ELSE Undefined]

\* Map.prototype.set
mapSet(m, key, v) == [q \in DOMAIN m \cup {key} |-> IF q = key THEN v ELSE m[q]]

attachItem_OrphansToRoot(st, item) ==
    LET pathParts == split(item.path, "/")
        parentPath == join(SubSeq(pathParts, 1, Len(pathParts) - 1), "/")
        k == Len(st.nodes) + 1
        nodes2 == Append(st.nodes, newNode(item))
        map2 == mapSet(st.nodeMap, item.path, k)
    IN  IF parentPath \in DOMAIN map2
           /\ nodes2[map2[parentPath]].children.defined
        THEN LET pi == map2[parentPath]
             IN  [root |-> st.root,
                  nodes |-> [nodes2 EXCEPT ![pi].children.list = Append(@, k)],
                  nodeMap |-> map2]
        ELSE [root |-> Append(st.root, k), nodes |-> nodes2, nodeMap |-> map2]

\* one iteration of the loop, lines 56-79.  FileNode objects are shared by
\* reference between nodeMap, root and the children arrays: `nodes` is the
\* heap of the objects, and root, nodeMap and children hold positions in it.
attachItem(st, item) ==
    LET pathParts == split(item.path, "/")
        parentPath == join(SubSeq(pathParts, 1, Len(pathParts) - 1), "/")
        k == Len(st.nodes) + 1
        nodes2 == Append(st.nodes, newNode(item))
        map2 == mapSet(st.nodeMap, item.path, k)
    IN  IF parentPath = <<>>
        THEN [root |-> Append(st.root, k), nodes |-> nodes2, nodeMap |-> map2]
        ELSE IF parentPath \in DOMAIN map2
                /\ nodes2[map2[parentPath]].children.defined
        THEN LET pi == map2[parentPath]
             IN  [root |-> st.root,
                  nodes |-> [nodes2 EXCEPT ![pi].children.list = Append(@, k)],
                  nodeMap |-> map2]
        ELSE [root |-> st.root, nodes |-> nodes2, nodeMap |-> map2]

RECURSIVE attachFrom(_, _, _)
attachFrom(sorted, i, st) ==
    IF i > Len(sorted) THEN st
    ELSE attachFrom(sorted, i + 1, attachItem(st, sorted[i]))

EmptyMap == [q \in {} |-> 0]

\* buildFileTree: the root array and the objects it reaches
buildFileTree(items) ==
    LET st == attachFrom(sortedItems(items), 1,
                         [root |-> <<>>, nodes |-> <<>>, nodeMap |-> EmptyMap])
    IN  [root |-> st.root, nodes |-> st.nodes]

\* paths of repository entries
TreePaths ==
    { <<"a">>, <<"b">>, <<"a", "b">>,
      <<"a", "/", "a">>, <<"a", "/", "b">>, <<"b", "/", "c">>,
      <<"a", "/", "b", "/", "c">> }

\* GitHubTreeItem.type
ItemTypes == {"blob", "tree", "commit"}

\* the entries a recursive tree listing can hold; sha stands for the object
\* id of the entry
TreeEntries ==
    { [path |-> p, type |-> ty, sha |-> <<"sha", p, ty>>] :
        p \in TreePaths, ty \in ItemTypes }

\* the flat lists of n entries with distinct paths, in any order
ListingsOfLength(n) ==
    { l \in [1..n -> TreeEntries] :
        \A i, j \in 1..n : l[i].path = l[j].path => i = j }

NotBuilt == [root |-> <<>>, nodes |-> <<>>]

\* buildFileTree is applied to the listing
BuildFileTree ==
    /\ ~tbuilt
    /\ tbuilt' = TRUE
    /\ ttree' = buildFileTree(titems)
    /\ UNCHANGED titems

(***************************************************************************)
(* github/tree/route.ts and github/content/route.ts: the POST handlers     *)
(***************************************************************************)
\* String.prototype.includes
includes(s, sub) ==
    \E i \in 0..(Len(s) - Len(sub)) : SubSeq(s, i + 1, i + Len(sub)) = sub

\* Array.prototype.filter(Boolean) on an array of strings
RECURSIVE filterBoolean(_)
filterBoolean(parts) ==
    IF Len(parts) = 0 THEN <<>>
    ELSE IF Head(parts) = <<>> THEN filterBoolean(Tail(parts))
    ELSE <<Head(parts)>> \o filterBoolean(Tail(parts))

GitHubToken == <<"g", "i", "t", "h", "u", "b", ".", "c", "o", "m">>

\* the null of parseGitHubUrl
NullRepo == [ok |-> FALSE, owner |-> <<>>, repo |-> <<>>]

parseGitHubUrl_AnyHost(url) ==
    IF url.kind # "url" THEN NullRepo
    ELSE LET parts == filterBoolean(split(url.pathname, "/"))
         IN  IF Len(parts) < 2 THEN NullRepo
             ELSE [ok |-> TRUE, owner |-> parts[1], repo |-> parts[2]]

\* parseGitHubUrl of tree/route.ts.  `new URL(url)` is the platform's: url is
\* what it makes of the string, a hostname and a pathname, or its throwing
parseGitHubUrl(url) ==
    IF url.kind # "url" THEN NullRepo
    ELSE IF ~includes(url.hostname, GitHubToken) THEN NullRepo
    ELSE LET parts == filterBoolean(split(url.pathname, "/"))
         IN  IF Len(parts) < 2 THEN NullRepo
             ELSE [ok |-> TRUE, owner |-> parts[1], repo |-> parts[2]]

\* parseGitHubUrl of content/route.ts, a copy of the one above
contentParseGitHubUrl(url) ==
    IF url.kind # "url" THEN NullRepo
    ELSE IF ~includes(url.hostname, GitHubToken) THEN NullRepo
    ELSE LET parts == filterBoolean(split(url.pathname, "/"))
         IN  IF Len(parts) < 2 THEN NullRepo
             ELSE [ok |-> TRUE, owner |-> parts[1], repo |-> parts[2]]

\* hostnames and pathnames of the URLs sent to the endpoints
Hostnames == { <<"g", "i", "t", "h", "u", "b", ".", "c", "o", "m">>,
              <<"w", "w", "w", ".", "g", "i", "t", "h", "u", "b", ".", "c", "o", "m">>,
              <<"g", "i", "t", "h", "u", "b", ".", "c", "o", "m", ".", "x", ".", "i", "o">>,
              <<"g", "i", "t", "l", "a", "b", ".", "c", "o", "m">>,
              <<"g", "i", "t", "h", "u", "b", ".", "c", "o">> }

Pathnames == { <<"/", "o", "/", "r">>, <<"/", "o">>, <<"/">>, <<"/", "o", "/", "r", "/", "t">>, <<"/", "/", "o", "/">>, <<"/", "o", "/", "/", "r">> }

\* the `url` of a request body: absent or empty, a string `new URL` rejects,
\* or a string it parses
UrlInputs ==
    {[kind |-> k, hostname |-> <<>>, pathname |-> <<>>] : k \in {"missing", "unparseable"}}
    \cup {[kind |-> "url", hostname |-> h, pathname |-> p] :
            h \in Hostnames, p \in Pathnames}

\* the `path` of a content request: absent or empty is <<>>
FilePaths == { <<>>, <<"R", "E", "A", "D", "M", "E">>, <<"p", "d", "f">>, <<"a", ".", "P", "N", "G">>, <<"a", ".", "t", "s">>, <<"d", "/", "v", ".", "m", "p", "4">>, <<"x", ".", "p", "d", "f">> }

\* the `branch` of a content request: absent or empty is <<>>
Branches == { <<>>, <<"d", "e", "v">> }

MainBranch == <<"m", "a", "i", "n">>

\* the outcomes of an upstream `await fetch(...)`: a rejection, or a response
\* with a status; shaped tells whether the body of a success response parses
\* and has the fields the handler reads
GitHubOutcomes ==
    {[kind |-> "rejected", status |-> 0, shaped |-> FALSE]}
    \cup {[kind |-> "response", status |-> st, shaped |-> FALSE] :
            st \in {200, 403, 404, 500}}
    \cup {[kind |-> "response", status |-> 200, shaped |-> TRUE]}

\* data.content of an upstream body that has none
NoUpstreamContent == [present |-> FALSE, text |-> <<>>]

\* what the handler has of a settled call: the outcome and, for the contents
\* call, the data.type and data.content of the body ("" and no content
\* where no body was read)
Received(o, type, content) ==
    [kind |-> o.kind, status |-> o.status, shaped |-> o.shaped, type |-> type,
     content |-> content]

NoGitHubOutcome ==
    [kind |-> "none", status |-> 0, shaped |-> FALSE, type |-> "",
     content |-> NoUpstreamContent]

NoBody == [success |-> FALSE]

\* NextResponse.json({error}, {status}); code is the upstream status quoted
\* in the error text, 0 when it quotes none
ErrorResponse(status, error, code) ==
    [status |-> status, error |-> error, code |-> code, body |-> NoBody]

\* NextResponse.json(body)
OkResponse(body) == [status |-> 200, error |-> "", code |-> 0, body |-> body]

NoResponse == [status |-> 0, error |-> "", code |-> 0, body |-> NoBody]

\* the outer catch of both handlers
CaughtResponse(message, code) == ErrorResponse(500, message, code)

NoContext == [owner |-> <<>>, repo |-> <<>>, branch |-> <<>>]

NoRequest ==
    [endpoint |-> "none", json |-> FALSE,
     url |-> [kind |-> "missing", hostname |-> <<>>, pathname |-> <<>>],
     path |-> <<>>, branch |-> <<>>]

\* the handler returns a response
Respond(r) ==
    /\ hpc' = "done"
    /\ hresp' = r

\* the handler issues an upstream call and awaits it
Await(call) ==
    /\ hpc' = call
    /\ hcalls' = Append(hcalls, call)
    /\ hresp' = NoResponse

\* tree/route.ts POST up to its first upstream call, lines 98-125
TreePOST(json, url) ==
    /\ hpc = "idle"
    /\ hreq' = [endpoint |-> "tree", json |-> json, url |-> url,
                path |-> <<>>, branch |-> <<>>]
    /\ hlast' = NoGitHubOutcome
    /\ IF ~json
       THEN /\ Respond(CaughtResponse("error.message", 0))
            /\ hcalls' = <<>> /\ hctx' = NoContext
       ELSE IF url.kind = "missing"
       THEN /\ Respond(ErrorResponse(400, "GitHub URL is required", 0))
            /\ hcalls' = <<>> /\ hctx' = NoContext
       ELSE LET parsed == parseGitHubUrl(url)
            IN  IF ~parsed.ok
                THEN /\ Respond(ErrorResponse(400, "Invalid GitHub URL", 0))
                     /\ hcalls' = <<>> /\ hctx' = NoContext
                ELSE /\ hpc' = "repo"
                     /\ hcalls' = <<"repo">>
                     /\ hresp' = NoResponse
                     /\ hctx' = [owner |-> parsed.owner, repo |-> parsed.repo,
                                 branch |-> <<>>]

repoNotOk_Throws(status) == CaughtResponse("GitHub API error: ", status)

\* the response to a repository-metadata call that is not ok, lines 127-135
repoNotOk(status) ==
    IF status = 404
    THEN ErrorResponse(404, "Repository not found", 0)
    ELSE CaughtResponse("GitHub API error: ", status)

\* the repository-metadata call settles, lines 122-144
TreeRepoSettles(o, defaultBranch) ==
    /\ hpc = "repo"
    /\ hlast' = Received(o, "", NoUpstreamContent)
    /\ UNCHANGED hreq
    /\ IF o.kind = "rejected"
       THEN Respond(CaughtResponse("error.message", 0)) /\ UNCHANGED <<hcalls, hctx>>
       ELSE IF ~ResponseOk(o.status)
       THEN Respond(repoNotOk(o.status)) /\ UNCHANGED <<hcalls, hctx>>
       ELSE IF ~o.shaped
       THEN Respond(CaughtResponse("error.message", 0)) /\ UNCHANGED <<hcalls, hctx>>
       ELSE /\ Await("branch")
            /\ hctx' = [hctx EXCEPT !.branch = defaultBranch]

\* the branch-metadata call settles, lines 141-157
TreeBranchSettles(o) ==
    /\ hpc = "branch"
    /\ hlast' = Received(o, "", NoUpstreamContent)
    /\ UNCHANGED <<hreq, hctx>>
    /\ IF o.kind = "rejected"
       THEN Respond(CaughtResponse("error.message", 0)) /\ UNCHANGED hcalls
       ELSE IF ~ResponseOk(o.status)
       THEN /\ Respond(CaughtResponse("Failed to get branch info: ", o.status))
            /\ UNCHANGED hcalls
       ELSE IF ~o.shaped
       THEN Respond(CaughtResponse("error.message", 0)) /\ UNCHANGED hcalls
       ELSE Await("tree")

\* the listings the recursive tree call answers with in this specification
SampleListings ==
    { <<>>,
      << [path |-> <<"a", "/", "b">>, type |-> "blob",
          sha |-> <<"sha", <<"a", "/", "b">>, "blob">>],
         [path |-> <<"a">>, type |-> "tree", sha |-> <<"sha", <<"a">>, "tree">>],
         [path |-> <<"b">>, type |-> "blob", sha |-> <<"sha", <<"b">>, "blob">>] >> }

\* the recursive tree call settles, lines 154-173
TreeListingSettles(o, listing, truncated) ==
    /\ hpc = "tree"
    /\ hlast' = Received(o, "", NoUpstreamContent)
    /\ UNCHANGED <<hreq, hctx, hcalls>>
    /\ IF o.kind = "rejected"
       THEN Respond(CaughtResponse("error.message", 0))
       ELSE IF ~ResponseOk(o.status)
       THEN Respond(CaughtResponse("Failed to get tree: ", o.status))
       ELSE IF ~o.shaped
       THEN Respond(CaughtResponse("error.message", 0))
       ELSE Respond(OkResponse(
                [success |-> TRUE, owner |-> hctx.owner, repo |-> hctx.repo,
                 branch |-> hctx.branch, tree |-> buildFileTree(listing),
                 truncated |-> truncated]))

\* content/route.ts POST up to its upstream call, lines 33-60
ContentPOST(json, url, path, branch) ==
    /\ hpc = "idle"
    /\ hreq' = [endpoint |-> "content", json |-> json, url |-> url,
                path |-> path, branch |-> branch]
    /\ hlast' = NoGitHubOutcome
    /\ IF ~json
       THEN /\ Respond(CaughtResponse("error.message", 0))
            /\ hcalls' = <<>> /\ hctx' = NoContext
       ELSE IF url.kind = "missing" \/ path = <<>>
       THEN /\ Respond(ErrorResponse(400, "GitHub URL and file path are required", 0))
            /\ hcalls' = <<>> /\ hctx' = NoContext
       ELSE LET parsed == contentParseGitHubUrl(url)
            IN  IF ~parsed.ok
                THEN /\ Respond(ErrorResponse(400, "Invalid GitHub URL", 0))
                     /\ hcalls' = <<>> /\ hctx' = NoContext
                ELSE /\ hpc' = "contents"
                     /\ hcalls' = <<"contents">>
                     /\ hresp' = NoResponse
                     /\ hctx' = [owner |-> parsed.owner, repo |-> parsed.repo,
                                 branch |-> IF branch = <<>> THEN MainBranch
                                            ELSE branch]

\* String.prototype.toLowerCase, on the characters of the file paths
toLowerCaseChar(ch) ==
    CASE ch = "A" -> "a"
      [] ch = "B" -> "b"
      [] ch = "C" -> "c"
      [] ch = "D" -> "d"
      [] ch = "E" -> "e"
      [] ch = "F" -> "f"
      [] ch = "G" -> "g"
      [] ch = "H" -> "h"
      [] ch = "I" -> "i"
      [] ch = "J" -> "j"
      [] ch = "K" -> "k"
      [] ch = "L" -> "l"
      [] ch = "M" -> "m"
      [] ch = "N" -> "n"
      [] ch = "O" -> "o"
      [] ch = "P" -> "p"
      [] ch = "Q" -> "q"
      [] ch = "R" -> "r"
      [] ch = "S" -> "s"
      [] ch = "T" -> "t"
      [] ch = "U" -> "u"
      [] ch = "V" -> "v"
      [] ch = "W" -> "w"
      [] ch = "X" -> "x"
      [] ch = "Y" -> "y"
      [] ch = "Z" -> "z"
      [] OTHER -> ch

toLowerCase(str) == [i \in 1..Len(str) |-> toLowerCaseChar(str[i])]

extensionOf_OfFinalSegment(path) ==
    LET segments == split(path, "/")
        parts == split(segments[Len(segments)], ".")
    IN  IF Len(parts) = 1 THEN <<>> ELSE toLowerCase(parts[Len(parts)])

\* path.split(".").pop()?.toLowerCase() || "", line 83
extensionOf(path) ==
    LET parts == split(path, ".")
    IN  toLowerCase(parts[Len(parts)])

imageExtensions == { <<"p", "n", "g">>,
    <<"j", "p", "g">>,
    <<"j", "p", "e", "g">>,
    <<"g", "i", "f">>,
    <<"s", "v", "g">>,
    <<"w", "e", "b", "p">>,
    <<"i", "c", "o">>,
    <<"b", "m", "p">> }

videoExtensions == { <<"m", "p", "4">>, <<"w", "e", "b", "m">>, <<"m", "o", "v">>, <<"a", "v", "i">>, <<"m", "k", "v">> }

pdfExtensions == { <<"p", "d", "f">> }

\* values of the base64 digits that occur in the upstream contents
Base64Value(ch) ==
    CASE ch = "G" -> 6
      [] ch = "Q" -> 16
      [] ch = "Y" -> 24
      [] ch = "a" -> 26
      [] ch = "k" -> 36

Base64Digits == {"G", "Q", "Y", "a", "k"}

\* the six bits of a digit, most significant first
SixBits(v) == [i \in 1..6 |-> (v \div (2 ^ (6 - i))) % 2]

RECURSIVE bitsOf(_)
bitsOf(digits) ==
    IF Len(digits) = 0 THEN <<>>
    ELSE SixBits(Base64Value(Head(digits))) \o bitsOf(Tail(digits))

RECURSIVE bytesOf(_)
bytesOf(bits) ==
    IF Len(bits) < 8 THEN <<>>
    ELSE <<bits[1] * 128 + bits[2] * 64 + bits[3] * 32 + bits[4] * 16
           + bits[5] * 8 + bits[6] * 4 + bits[7] * 2 + bits[8]>>
         \o bytesOf(SubSeq(bits, 9, Len(bits)))

\* Buffer.from(content, "base64").toString("utf-8"): characters outside the
\* base64 alphabet (the line breaks GitHub inserts) are skipped, padding
\* ends the data, and each full group of 8 bits is one character code
decodeBase64(content) ==
    LET upto == IF \E i \in 1..Len(content) : content[i] = "="
                THEN (CHOOSE i \in 1..Len(content) :
                        content[i] = "=" /\ \A j \in 1..(i - 1) : content[j] # "=") - 1
                ELSE Len(content)
        data == SubSeq(content, 1, upto)
        digits == SelectSeq(data, LAMBDA ch : ch \in Base64Digits)
    IN  bytesOf(bitsOf(digits))

\* data.content of an upstream file: present (base64 text with GitHub's line
\* breaks) or absent, which makes Buffer.from throw
UpstreamContents ==
    { [present |-> FALSE, text |-> <<>>],
      [present |-> TRUE, text |-> <<>>],
      [present |-> TRUE, text |-> <<"a", "G", "k", "=", "\n">>],
      [present |-> TRUE, text |-> <<"Y", "Q", "=", "=", "\n">>] }

\* data.type of the upstream answer; a directory is answered with an array,
\* whose type is undefined
UpstreamTypes == {"file", "symlink", "undefined"}

notAFile_NotFound == ErrorResponse(404, "Path is not a file", 0)

\* the response when the upstream data is not a file, lines 75-80
notAFile == ErrorResponse(400, "Path is not a file", 0)

\* the contents call settles, lines 57-131
ContentSettles(o, type, content) ==
    /\ hpc = "contents"
    /\ hlast' = IF o.kind = "response" /\ ResponseOk(o.status) /\ o.shaped
                THEN Received(o, type, content)
                ELSE Received(o, "", NoUpstreamContent)
    /\ UNCHANGED <<hreq, hctx, hcalls>>
    /\ IF o.kind = "rejected"
       THEN Respond(CaughtResponse("error.message", 0))
       ELSE IF ~ResponseOk(o.status)
       THEN IF o.status = 404
            THEN Respond(ErrorResponse(404, "File not found", 0))
            ELSE Respond(CaughtResponse("GitHub API error: ", o.status))
       ELSE IF ~o.shaped
       THEN Respond(CaughtResponse("error.message", 0))
       ELSE IF type # "file"
       THEN Respond(notAFile)
       ELSE LET extension == extensionOf(hreq.path)
                isImage == extension \in imageExtensions
                isVideo == extension \in videoExtensions
                isPdf == extension \in pdfExtensions
                isMedia == isImage \/ isVideo \/ isPdf
            IN  IF isMedia
                THEN Respond(OkResponse(
                        [success |-> TRUE, path |-> hreq.path,
                         extension |-> extension, isMedia |-> TRUE,
                         mediaType |-> IF isImage THEN "image"
                                       ELSE IF isVideo THEN "video" ELSE "pdf",
                         rawUrl |-> <<"https://raw.githubusercontent.com/",
                                      hctx.owner, "/", hctx.repo, "/",
                                      hctx.branch, "/", hreq.path>>]))
                ELSE IF ~content.present
                THEN Respond(ErrorResponse(500, "Unable to decode file content", 0))
                ELSE Respond(OkResponse(
                        [success |-> TRUE, path |-> hreq.path,
                         content |-> decodeBase64(content.text),
                         extension |-> extension, isMedia |-> FALSE]))

(***************************************************************************)
(* groq/generate-outline/route.ts: the POST handler                        *)
(***************************************************************************)
\* the text of an LLM answer is the sequence of its tokens: the fence of three
\* backquotes, the word json (the tag of a fence, prose anywhere else), the
\* brackets of a JSON array, white space
Fence == "fence"

\* the non-empty texts of n tokens
TextsOfLength(n) == [1..n -> {Fence, "json", "[", "]", " "}]

\* String.prototype.trim
RECURSIVE trimStart(_)
trimStart(s) ==
    IF Len(s) > 0 /\ Head(s) = " " THEN trimStart(Tail(s)) ELSE s

RECURSIVE trimEnd(_)
trimEnd(s) ==
    IF Len(s) > 0 /\ s[Len(s)] = " " THEN trimEnd(SubSeq(s, 1, Len(s) - 1)) ELSE s

trim(s) == trimEnd(trimStart(s))

\* the match of the fenced-block pattern, line 83: the leftmost fence
\* that has a fence after it opens the match, the nearest fence after it
\* closes it, and the group is what lies between them after the optional
\* tag and white space
matchFenced(content) ==
    LET opens == {i \in 1..Len(content) :
                    /\ content[i] = Fence
                    /\ \E j \in (i + 1)..Len(content) : content[j] = Fence}
    IN  IF opens = {}
        THEN [matched |-> FALSE, group |-> <<>>]
        ELSE LET i == CHOOSE k \in opens : \A k2 \in opens : k <= k2
                 j == CHOOSE k \in (i + 1)..Len(content) :
                        /\ content[k] = Fence
                        /\ \A k2 \in (i + 1)..(k - 1) : content[k2] # Fence
                 inner == SubSeq(content, i + 1, j - 1)
                 untagged == IF Len(inner) > 0 /\ Head(inner) = "json"
                             THEN Tail(inner) ELSE inner
             IN  [matched |-> TRUE, group |-> trimStart(untagged)]

\* jsonMatch ? jsonMatch[1].trim() : content.trim(), line 84
jsonStrOf(content) ==
    LET jsonMatch == matchFenced(content)
    IN  IF jsonMatch.matched THEN trim(jsonMatch.group) ELSE trim(content)

\* whether JSON.parse accepts a text of these tokens: the only values they
\* spell are the arrays [], [[]], [[[]]], ..., with white space anywhere
jsonParses(str) ==
    LET compact == SelectSeq(str, LAMBDA t : t # " ")
        half == Len(compact) \div 2
    IN  /\ Len(compact) > 0
        /\ Len(compact) = 2 * half
        /\ \A i \in 1..half : compact[i] = "["
        /\ \A i \in (half + 1)..Len(compact) : compact[i] = "]"

\* the value JSON.parse returns: the array, written without white space
jsonParse(str) == SelectSeq(str, LAMBDA t : t # " ")

\* what `await sendToGroq(...)` returns to the handler: a failure of the
\* client, or a success with a non-empty content
GroqReturn(result, content) ==
    [success |-> result.success, error |-> result.error, status |-> result.status,
     content |-> content]

\* the body of an outline request: repoName and files, present or not
NoOutlineRequest == [json |-> FALSE, repoName |-> FALSE, files |-> "missing"]

\* the handler returns a response
OutlineRespond(r) ==
    /\ opc' = "done"
    /\ oresp' = r

\* POST up to `await sendToGroq`, lines 9-69
OutlinePOST(json, repoName, files) ==
    /\ opc = "idle"
    /\ oreq' = [json |-> json, repoName |-> repoName, files |-> files]
    /\ ollm' = GroqReturn(NoResult, <<>>)
    /\ IF ~json
       THEN OutlineRespond(CaughtResponse("error.message", 0)) /\ ocalls' = 0
       ELSE IF ~repoName \/ files # "some"
       THEN /\ OutlineRespond(
                ErrorResponse(400, "Repository name and files are required", 0))
            /\ ocalls' = 0
       ELSE /\ opc' = "llm"
            /\ ocalls' = 1
            /\ oresp' = NoResponse

outlineParseFailed_Unnamed == CaughtResponse("error.message", 0)

\* the inner catch rethrows and the outer catch answers, lines 86-100
outlineParseFailed == CaughtResponse("Failed to parse documentation outline", 0)

\* the continuation after `await sendToGroq`, lines 71-101
OutlineGroqReturns(result) ==
    /\ opc = "llm"
    /\ ollm' = result
    /\ UNCHANGED <<oreq, ocalls>>
    /\ IF ~result.success
       THEN OutlineRespond(ErrorResponse(500, result.error, 0))
       ELSE LET jsonStr == jsonStrOf(result.content)
            IN  IF ~jsonParses(jsonStr)
                THEN OutlineRespond(outlineParseFailed)
                ELSE OutlineRespond(OkResponse(
                        [success |-> TRUE, chapters |-> jsonParse(jsonStr)]))

(***************************************************************************)
(* page.tsx (Home), GithubForm and DocumentationLayout.tsx: the data       *)
(***************************************************************************)
\* Array.prototype.slice(0, end)
slice(arr, end) == SubSeq(arr, 1, IF Len(arr) < end THEN Len(arr) ELSE end)

\* a file and a folder of the hierarchy the tree endpoint answers with
fileNode(name, path) ==
    [id |-> <<"sha", path>>, name |-> name, type |-> "file", path |-> path,
     children |-> Undefined]

folderNode(name, path, children) ==
    [id |-> <<"sha", path>>, name |-> name, type |-> "folder", path |-> path,
     children |-> [defined |-> TRUE, list |-> children]]

\* the i-th root entry of the repositories loaded: the folder src with
\* App.tsx, a file that is no key file, then folders d, dd, ddd, ... that
\* each hold a README.md
RootEntry(i) ==
    IF i = 1
    THEN folderNode(<<"s", "r", "c">>, <<"s", "r", "c">>,
                    <<fileNode(<<"A", "p", "p", ".", "t", "s", "x">>, <<"s", "r", "c", "/", "A", "p", "p", ".", "t", "s", "x">>)>>)
    ELSE IF i = 2 THEN fileNode(<<"L", "I", "C", "E", "N", "S", "E">>, <<"L", "I", "C", "E", "N", "S", "E">>)
    ELSE LET d == [k \in 1..(i - 2) |-> "d"]
         IN  folderNode(d, d,
                        <<fileNode(<<"R", "E", "A", "D", "M", "E", ".", "m", "d">>, d \o <<"/", "R", "E", "A", "D", "M", "E", ".", "m", "d">>)>>)

\* data.tree of a repository with n root entries
RepoTree(n) == [i \in 1..n |-> RootEntry(i)]

\* the list of collectKeyFiles, lines 174-180
keyFilePatterns ==
    { <<"R", "E", "A", "D", "M", "E", ".", "m", "d">>, <<"r", "e", "a", "d", "m", "e", ".", "m", "d">>, <<"R", "E", "A", "D", "M", "E">>,
      <<"p", "a", "c", "k", "a", "g", "e", ".", "j", "s", "o", "n">>, <<"c", "o", "m", "p", "o", "s", "e", "r", ".", "j", "s", "o", "n">>, <<"r", "e", "q", "u", "i", "r", "e", "m", "e", "n", "t", "s", ".", "t", "x", "t">>,
      <<"C", "a", "r", "g", "o", ".", "t", "o", "m", "l">>, <<"g", "o", ".", "m", "o", "d">>,
      <<"i", "n", "d", "e", "x", ".", "j", "s">>, <<"i", "n", "d", "e", "x", ".", "t", "s">>, <<"m", "a", "i", "n", ".", "j", "s">>, <<"m", "a", "i", "n", ".", "t", "s">>,
      <<"a", "p", "p", ".", "j", "s">>, <<"a", "p", "p", ".", "t", "s">>,
      <<"s", "r", "c", "/", "i", "n", "d", "e", "x", ".", "j", "s">>, <<"s", "r", "c", "/", "i", "n", "d", "e", "x", ".", "t", "s">>, <<"s", "r", "c", "/", "m", "a", "i", "n", ".", "j", "s">>,
      <<"s", "r", "c", "/", "m", "a", "i", "n", ".", "t", "s">>, <<"s", "r", "c", "/", "A", "p", "p", ".", "t", "s", "x">>, <<"s", "r", "c", "/", "A", "p", "p", ".", "j", "s", "x">>,
      <<".", "e", "n", "v", ".", "e", "x", "a", "m", "p", "l", "e">>, <<"d", "o", "c", "k", "e", "r", "-", "c", "o", "m", "p", "o", "s", "e", ".", "y", "m", "l">>, <<"D", "o", "c", "k", "e", "r", "f", "i", "l", "e">> }

\* p.toLowerCase() of every pattern
lowerCasePatterns == {toLowerCase(p) : p \in keyFilePatterns}

\* the test of line 191
isKeyFile(node) ==
    LET fileName == toLowerCase(node.name)
        filePath == toLowerCase(node.path)
    IN  \E p \in lowerCasePatterns : fileName = p \/ filePath = p

\* findFiles, lines 185-199
RECURSIVE findFiles(_)
findFiles(nodes) ==
    IF Len(nodes) = 0 THEN <<>>
    ELSE LET node == Head(nodes)
             matches == IF node.type = "file"
                        THEN IF isKeyFile(node) THEN <<node>> ELSE <<>>
                        ELSE IF node.children.defined
                        THEN findFiles(node.children.list)
                        ELSE <<>>
         IN  matches \o findFiles(Tail(nodes))

keyNodes_Unlimited(tree) == findFiles(tree)

\* findFiles(repoInfo.tree).slice(0, 8), line 201
keyNodes(tree) == slice(findFiles(tree), 8)

\* the file nodes the right sidebar shows
RECURSIVE fileNodes(_)
fileNodes(nodes) ==
    IF Len(nodes) = 0 THEN <<>>
    ELSE LET node == Head(nodes)
         IN  (IF node.type = "file" THEN <<node>>
              ELSE IF node.children.defined THEN fileNodes(node.children.list)
              ELSE <<>>) \o fileNodes(Tail(nodes))

\* a Chapter of the outline
chapterOf(id, title, children) ==
    [id |-> id, title |-> title, children |-> children]

flattenChapters_TopLevel(chapters) == chapters

\* flattenChapters, lines 228-237
RECURSIVE flattenChapters(_)
flattenChapters(chapters) ==
    IF Len(chapters) = 0 THEN <<>>
    ELSE <<Head(chapters)>> \o flattenChapters(Head(chapters).children)
         \o flattenChapters(Tail(chapters))

\* findChapter, lines 414-423: the first chapter with the id, parents before
\* their children; an empty result stands for undefined
findChapter(chapters, id) ==
    SelectSeq(flattenChapters(chapters), LAMBDA ch : ch.id = id)

\* the outlines the outline endpoint answers with: none, a chapter with a
\* sub-chapter, and two chapters with one id
SampleOutlines ==
    { <<>>,
      << chapterOf("a", "A", <<chapterOf("b", "B", <<>>)>>) >>,
      << chapterOf("a", "A", <<>>), chapterOf("a", "A again", <<>>) >> }

\* the texts the content generator answers with
Texts == {"T1", "T2"}

\* undefined, for the optional strings of the state
Undef == "(undefined)"

\* object spread with one computed key: {...obj, [key]: v}
spreadWith(obj, key, v) ==
    [q \in DOMAIN obj \cup {key} |-> IF q = key THEN v ELSE obj[q]]

EmptyObject == [q \in {} |-> ""]

\* whether obj[key] is truthy: the key is present with a non-empty string
truthyAt_Never(obj, key) == FALSE

truthyAt(obj, key) == key \in DOMAIN obj /\ obj[key] # ""

(***************************************************************************)
(* page.tsx (Home) and GithubForm: loading the repository                  *)
(***************************************************************************)
Clicks == 1..NumClicks

Views == 1..NumViews

NoRepo == [loaded |-> FALSE, tree |-> <<>>]

\* no fetch of the page failed in this step
NoneFailed == [kind |-> "none", by |-> "none"]

\* what the last step leaves in `failed`: the request whose fetch settled
\* in it as a failure (the fetch threw or the response was not ok) and the
\* function that issued it, or none
Settled(kind, by, isFailure) ==
    IF isFailure THEN [kind |-> kind, by |-> by] ELSE NoneFailed

\* the outcomes of a fetch of one of the endpoints: the fetch or the reading
\* of the body throws, the response is not ok with or without an error text
\* in its body, or the response is ok
UiOutcomes == {"rejected", "error", "errorless", "ok"}

\* the text typed into the form
UrlTexts == { <<>>, <<" ">>, <<"u">> }

HandleSubmit_WhileLoading(url) ==
    /\ ~repoInfo.loaded
    /\ IF trim(url) # <<>>
       THEN /\ isLoading' = TRUE
            /\ homeError' = Undef
            /\ treeFetches' = treeFetches + 1
       ELSE UNCHANGED <<isLoading, homeError, treeFetches>>
    /\ failed' = NoneFailed
    /\ UNCHANGED <<repoInfo, docState, activeContent, batch, clicks, views, selected,
                   consoleLog>>

\* GithubForm.handleSubmit, lines 16-21, and Home.handleSubmit up to its
\* `await fetch`, lines 188-199
HandleSubmit(url) ==
    /\ ~repoInfo.loaded
    /\ IF trim(url) # <<>> /\ ~isLoading
       THEN /\ isLoading' = TRUE
            /\ homeError' = Undef
            /\ treeFetches' = treeFetches + 1
       ELSE UNCHANGED <<isLoading, homeError, treeFetches>>
    /\ failed' = NoneFailed
    /\ UNCHANGED <<repoInfo, docState, activeContent, batch, clicks, views, selected,
                   consoleLog>>

\* Home.handleSubmit after its fetch settled, lines 201-218; when the
\* repository is set DocumentationLayout is mounted
TreeLoadSettles(o, tree) ==
    /\ treeFetches > 0
    /\ treeFetches' = treeFetches - 1
    /\ isLoading' = FALSE
    /\ failed' = Settled("tree", "handleSubmit", o # "ok")
    /\ IF o = "ok"
       THEN /\ repoInfo' = [loaded |-> TRUE, tree |-> tree]
            /\ batch' = [batch EXCEPT !.pc = "mounted"]
            /\ UNCHANGED homeError
       ELSE /\ homeError' = IF o = "rejected" THEN "error.message"
                            ELSE IF o = "error" THEN "data.error"
                            ELSE "Failed to fetch repository"
            /\ UNCHANGED <<repoInfo, batch>>
    /\ UNCHANGED <<docState, activeContent, clicks, views, selected, consoleLog>>

(***************************************************************************)
(* DocumentationLayout.tsx: generateDocumentation                          *)
(***************************************************************************)
\* useState of docState, lines 133-138
InitialDocState ==
    [isGenerating |-> FALSE, isGeneratingContent |-> FALSE,
     currentGeneratingChapter |-> Undef, chapters |-> <<>>,
     generatedContent |-> EmptyObject, error |-> Undef]

\* the locals of the run of generateDocumentation: where it is, the position
\* of collectKeyFiles in keyNodes, keyFiles, and the position in allChapters
BatchAt(pc, keyIndex, keyFiles, chapterIndex, allChapters) ==
    [pc |-> pc, keyIndex |-> keyIndex, keyFiles |-> keyFiles,
     chapterIndex |-> chapterIndex, allChapters |-> allChapters]

Unmounted == BatchAt("unmounted", 0, <<>>, 0, <<>>)

BatchDone == BatchAt("done", 0, <<>>, 0, <<>>)

\* the outcomes of a key file's fetch: it throws, the response is not ok,
\* it is ok without a content (a media file, an empty file), or with one
KeyFileOutcomes == {"rejected", "notOk", "noContent", "content"}

\* the body of the loop of collectKeyFiles once the fetch settled, lines
\* 215-221: files after the round
pushKeyFile(files, node, o) ==
    IF o = "content" THEN Append(files, node.path) ELSE files

batchFailed_Silent(ds, message) ==
    /\ docState' = [ds EXCEPT !.isGenerating = FALSE,
                              !.isGeneratingContent = FALSE]
    /\ batch' = BatchDone

\* the catch of generateDocumentation, lines 337-344
batchFailed(ds, message) ==
    /\ docState' = [ds EXCEPT !.isGenerating = FALSE,
                              !.isGeneratingContent = FALSE,
                              !.error = message]
    /\ batch' = BatchDone

finishBatch_KeepsChapter(ds) ==
    /\ docState' = [ds EXCEPT !.isGeneratingContent = FALSE]
    /\ batch' = BatchDone

\* the end of generateDocumentation, lines 331-335
finishBatch(ds) ==
    /\ docState' = [ds EXCEPT !.isGeneratingContent = FALSE,
                              !.currentGeneratingChapter = Undef]
    /\ batch' = BatchDone

afterBatchKeyFiles_NoCheck(ds, keyFiles) ==
    /\ docState' = ds
    /\ batch' = BatchAt("outline", 0, keyFiles, 0, <<>>)

\* generateDocumentation once collectKeyFiles returned, lines 276-288
afterBatchKeyFiles(ds, keyFiles) ==
    IF Len(keyFiles) = 0
    THEN batchFailed(ds, "No key files found to generate documentation")
    ELSE /\ docState' = ds
         /\ batch' = BatchAt("outline", 0, keyFiles, 0, <<>>)

\* generateDocumentation up to its first await, lines 270-274 and collectKeyFiles
\* up to its first fetch, lines 173-214.  It is run by the effect when the
\* component has mounted (348-350) and by the buttons "Generate with AI"
\* (1053-1056) and "Try again" (1087-1092), which are rendered only while no
\* run is under way
GenerateDocumentation ==
    /\ repoInfo.loaded
    /\ \/ batch.pc = "mounted"
       \/ /\ batch.pc = "done"
          /\ \/ Len(docState.chapters) = 0 /\ ~docState.isGenerating
             \/ docState.error # Undef
    /\ LET ds == [docState EXCEPT !.isGenerating = TRUE, !.error = Undef]
       IN  IF Len(keyNodes(repoInfo.tree)) = 0
           THEN afterBatchKeyFiles(ds, <<>>)
           ELSE /\ docState' = ds
                /\ batch' = BatchAt("keyFiles", 1, <<>>, 0, <<>>)
    /\ failed' = NoneFailed
    /\ UNCHANGED <<isLoading, treeFetches, homeError, repoInfo, activeContent, clicks, views, selected,
                   consoleLog>>

\* a fetch of collectKeyFiles, called by generateDocumentation, settles
BatchKeyFileSettles(o) ==
    /\ batch.pc = "keyFiles"
    /\ failed' = Settled("keyFile", "generateDocumentation",
                         o \in {"rejected", "notOk"})
    /\ LET nodes == keyNodes(repoInfo.tree)
           files == pushKeyFile(batch.keyFiles, nodes[batch.keyIndex], o)
       IN  IF batch.keyIndex < Len(nodes)
           THEN /\ batch' = [batch EXCEPT !.keyIndex = @ + 1, !.keyFiles = files]
                /\ UNCHANGED docState
           ELSE afterBatchKeyFiles(docState, files)
    /\ UNCHANGED <<isLoading, treeFetches, homeError, repoInfo, activeContent, clicks, views, selected,
                   consoleLog>>

\* the fetch of the outline settles, lines 290-316; chapters is data.chapters,
\* the empty list when the body has none
OutlineSettles(o, chapters) ==
    /\ batch.pc = "outline"
    /\ failed' = Settled("outline", "generateDocumentation", o # "ok")
    /\ IF o = "rejected" THEN batchFailed(docState, "error.message")
       ELSE IF o = "error" THEN batchFailed(docState, "data.error")
       ELSE IF o = "errorless"
       THEN batchFailed(docState, "Failed to generate documentation")
       ELSE LET ds == [docState EXCEPT !.isGenerating = FALSE,
                                       !.isGeneratingContent = TRUE,
                                       !.chapters = chapters]
                allChapters == flattenChapters(chapters)
            IN  IF Len(allChapters) = 0
                THEN finishBatch(ds)
                ELSE /\ docState' = [ds EXCEPT !.currentGeneratingChapter =
                                                    allChapters[1].title]
                     /\ batch' = BatchAt("content", 0, batch.keyFiles, 1, allChapters)
    /\ UNCHANGED <<isLoading, treeFetches, homeError, repoInfo, activeContent, clicks, views, selected,
                   consoleLog>>

\* the outcomes of a fetch of the content generator: it throws, the response
\* is not ok, or it is ok, and then its content is a non-empty text
\* (generate-content answers 200 only with the content of a successful
\* sendToGroq, which is never empty)
ContentGenOutcomes == {"rejected", "notOk", "ok"}

generateSingleChapterContent_AnyStatus(o, text) == text

\* what generateSingleChapterContent returns once its fetch settled, lines
\* 255-266; the empty string stands for null
generateSingleChapterContent(o, text) == IF o = "ok" THEN text ELSE ""

\* what it writes with console.error, lines 258 and 264
chapterLog(o, chapter) ==
    IF o = "notOk"
    THEN <<[text |-> "Failed to generate content for", title |-> chapter.title]>>
    ELSE IF o = "rejected"
    THEN <<[text |-> "Error generating content for", title |-> chapter.title]>>
    ELSE <<>>

\* a fetch of the content generator issued by generateDocumentation settles:
\* the rest of generateSingleChapterContent and one round of the loop, lines
\* 255-266 and 309-335
BatchContentSettles(o, text) ==
    /\ batch.pc = "content"
    /\ LET chapter == batch.allChapters[batch.chapterIndex]
           content == generateSingleChapterContent(o, text)
           ds == IF content # ""
                 THEN [docState EXCEPT !.generatedContent =
                                            spreadWith(@, chapter.id, content)]
                 ELSE docState
       IN  /\ failed' = Settled("content", "generateDocumentation", o # "ok")
           /\ consoleLog' = consoleLog \o chapterLog(o, chapter)
           /\ IF batch.chapterIndex < Len(batch.allChapters)
              THEN /\ docState' =
                        [ds EXCEPT !.currentGeneratingChapter =
                            batch.allChapters[batch.chapterIndex + 1].title]
                   /\ batch' = [batch EXCEPT !.chapterIndex = @ + 1]
              ELSE finishBatch(ds)
    /\ UNCHANGED <<isLoading, treeFetches, homeError, repoInfo, activeContent, clicks, views, selected>>

(***************************************************************************)
(* DocumentationLayout.tsx: generateChapterContent and fetchFileContent    *)
(***************************************************************************)
\* ContentState values, lines 41-49; an undefined fileNode is the empty path
Welcome ==
    [type |-> "welcome", chapterId |-> Undef, chapterContent |-> Undef,
     fileNode |-> <<>>, fileContent |-> FALSE, isLoading |-> FALSE,
     error |-> Undef]

ChapterView(chapterId, chapterContent, loading, message) ==
    [type |-> "chapter", chapterId |-> chapterId,
     chapterContent |-> chapterContent, fileNode |-> <<>>,
     fileContent |-> FALSE, isLoading |-> loading, error |-> message]

FileView(path, hasContent, loading, message) ==
    [type |-> "file", chapterId |-> Undef, chapterContent |-> Undef,
     fileNode |-> path, fileContent |-> hasContent, isLoading |-> loading,
     error |-> message]

\* the locals of a run of generateChapterContent
ClickAt(pc, chapter, keyIndex, keyFiles) ==
    [pc |-> pc, chapter |-> chapter, keyIndex |-> keyIndex, keyFiles |-> keyFiles]

IdleClick == ClickAt("idle", chapterOf(Undef, Undef, <<>>), 0, <<>>)

ChapterIds == {"a", "b"}

\* handleChapterClick, lines 425-430, on a chapter the left sidebar shows,
\* and generateChapterContent up to its first await, lines 353-382
HandleChapterClick(c, id) ==
    /\ clicks[c].pc = "idle"
    /\ Len(findChapter(docState.chapters, id)) > 0
    /\ LET chapter == findChapter(docState.chapters, id)[1]
       IN  IF truthyAt(docState.generatedContent, chapter.id)
           THEN /\ activeContent' =
                    ChapterView(chapter.id, docState.generatedContent[chapter.id],
                                FALSE, Undef)
                /\ UNCHANGED clicks
           ELSE /\ activeContent' = ChapterView(chapter.id, Undef, TRUE, Undef)
                /\ clicks' =
                    [clicks EXCEPT ![c] =
                        IF Len(keyNodes(repoInfo.tree)) = 0
                        THEN ClickAt("content", chapter, 0, <<>>)
                        ELSE ClickAt("keyFiles", chapter, 1, <<>>)]
    /\ failed' = NoneFailed
    /\ UNCHANGED <<isLoading, treeFetches, homeError, repoInfo, docState, batch, views, selected, consoleLog>>

\* a fetch of collectKeyFiles, called by generateChapterContent, settles;
\* after the last one the content generator is asked, lines 372-382
ClickKeyFileSettles(c, o) ==
    /\ clicks[c].pc = "keyFiles"
    /\ failed' = Settled("keyFile", "generateChapterContent",
                         o \in {"rejected", "notOk"})
    /\ LET nodes == keyNodes(repoInfo.tree)
           files == pushKeyFile(clicks[c].keyFiles, nodes[clicks[c].keyIndex], o)
       IN  clicks' =
            [clicks EXCEPT ![c] =
                IF clicks[c].keyIndex < Len(nodes)
                THEN ClickAt("keyFiles", clicks[c].chapter, clicks[c].keyIndex + 1, files)
                ELSE ClickAt("content", clicks[c].chapter, 0, files)]
    /\ UNCHANGED <<isLoading, treeFetches, homeError, repoInfo, docState, activeContent, batch,
                   views, selected, consoleLog>>

\* the fetch of the content generator issued by generateChapterContent
\* settles, lines 384-410
ClickContentSettles(c, o, text) ==
    /\ clicks[c].pc = "content"
    /\ LET chapter == clicks[c].chapter
       IN  /\ failed' = Settled("content", "generateChapterContent", o # "ok")
           /\ IF o = "ok"
              THEN /\ docState' = [docState EXCEPT !.generatedContent =
                                        spreadWith(@, chapter.id, text)]
                   /\ activeContent' = ChapterView(chapter.id, text, FALSE, Undef)
              ELSE /\ activeContent' =
                        ChapterView(chapter.id, Undef, FALSE,
                                    IF o = "rejected" THEN "error.message"
                                    ELSE "data.error || Failed to generate content")
                   /\ UNCHANGED docState
    /\ clicks' = [clicks EXCEPT ![c] = IdleClick]
    /\ UNCHANGED <<isLoading, treeFetches, homeError, repoInfo, batch, views, selected, consoleLog>>

\* the locals of a run of fetchFileContent
ViewAt(pc, path) == [pc |-> pc, fileNode |-> path]

IdleView == ViewAt("idle", <<>>)

\* handleFileClick, lines 484-486, on the i-th file the right sidebar shows,
\* and fetchFileContent up to its await, lines 432-451
HandleFileClick(v, i) ==
    /\ views[v].pc = "idle"
    /\ repoInfo.loaded
    /\ i \in 1..Len(fileNodes(repoInfo.tree))
    /\ LET node == fileNodes(repoInfo.tree)[i]
       IN  /\ activeContent' = FileView(node.path, FALSE, TRUE, Undef)
           /\ views' = [views EXCEPT ![v] = ViewAt("fetching", node.path)]
           /\ selected' = node.path
    /\ failed' = NoneFailed
    /\ UNCHANGED <<isLoading, treeFetches, homeError, repoInfo, docState, batch, clicks, consoleLog>>

\* the fetch of fetchFileContent settles, lines 453-481
FileSettles(v, o) ==
    /\ views[v].pc = "fetching"
    /\ failed' = Settled("file", "fetchFileContent", o # "ok")
    /\ activeContent' =
        IF o = "ok" THEN FileView(views[v].fileNode, TRUE, FALSE, Undef)
        ELSE FileView(views[v].fileNode, FALSE, FALSE,
                      IF o = "rejected" THEN "error.message"
                      ELSE IF o = "error" THEN "data.error"
                      ELSE "Failed to fetch file content")
    /\ views' = [views EXCEPT ![v] = IdleView]
    /\ UNCHANGED <<isLoading, treeFetches, homeError, repoInfo, docState, batch, clicks,
                   selected, consoleLog>>

(***************************************************************************)
(* Specifications                                                          *)
(***************************************************************************)
\* the Groq client after module load; no GitHub request, no listing
InitGroq ==
    /\ nKeys \in 0..NumKeySlots
    /\ currentApiKeyIndex = 0
    /\ allKeysExhausted = FALSE
    /\ gpc = [c \in Calls |-> "idle"]
    /\ gkey = [c \in Calls |-> NoKey]
    /\ gtried = [c \in Calls |-> {}]
    /\ gattempts = [c \in Calls |-> 0]
    /\ glast = [c \in Calls |-> NoOutcome]
    /\ gall429 = [c \in Calls |-> TRUE]
    /\ gresult = [c \in Calls |-> NoResult]
    /\ titems = <<>>
    /\ tbuilt = FALSE
    /\ ttree = NotBuilt
    /\ hreq = NoRequest
    /\ hpc = "idle"
    /\ hcalls = <<>>
    /\ hlast = NoGitHubOutcome
    /\ hctx = NoContext
    /\ hresp = NoResponse
    /\ oreq = NoOutlineRequest
    /\ opc = "idle"
    /\ ocalls = 0
    /\ ollm = GroqReturn(NoResult, <<>>)
    /\ oresp = NoResponse
    /\ isLoading = FALSE
    /\ treeFetches = 0
    /\ homeError = Undef
    /\ repoInfo = NoRepo
    /\ docState = InitialDocState
    /\ activeContent = Welcome
    /\ batch = Unmounted
    /\ clicks = [c \in Clicks |-> IdleClick]
    /\ views = [v \in Views |-> IdleView]
    /\ selected = <<>>
    /\ consoleLog = <<>>
    /\ failed = NoneFailed

\* a listing about to be handed to buildFileTree
InitTree ==
    /\ nKeys = 0
    /\ currentApiKeyIndex = 0
    /\ allKeysExhausted = FALSE
    /\ gpc = [c \in Calls |-> "idle"]
    /\ gkey = [c \in Calls |-> NoKey]
    /\ gtried = [c \in Calls |-> {}]
    /\ gattempts = [c \in Calls |-> 0]
    /\ glast = [c \in Calls |-> NoOutcome]
    /\ gall429 = [c \in Calls |-> TRUE]
    /\ gresult = [c \in Calls |-> NoResult]
    /\ \E n \in 0..MaxItems : titems \in ListingsOfLength(n)
    /\ tbuilt = FALSE
    /\ ttree = NotBuilt
    /\ hreq = NoRequest
    /\ hpc = "idle"
    /\ hcalls = <<>>
    /\ hlast = NoGitHubOutcome
    /\ hctx = NoContext
    /\ hresp = NoResponse
    /\ oreq = NoOutlineRequest
    /\ opc = "idle"
    /\ ocalls = 0
    /\ ollm = GroqReturn(NoResult, <<>>)
    /\ oresp = NoResponse
    /\ isLoading = FALSE
    /\ treeFetches = 0
    /\ homeError = Undef
    /\ repoInfo = NoRepo
    /\ docState = InitialDocState
    /\ activeContent = Welcome
    /\ batch = Unmounted
    /\ clicks = [c \in Clicks |-> IdleClick]
    /\ views = [v \in Views |-> IdleView]
    /\ selected = <<>>
    /\ consoleLog = <<>>
    /\ failed = NoneFailed

\* the endpoints before a request arrives
InitGitHub ==
    /\ nKeys = 0
    /\ currentApiKeyIndex = 0
    /\ allKeysExhausted = FALSE
    /\ gpc = [c \in Calls |-> "idle"]
    /\ gkey = [c \in Calls |-> NoKey]
    /\ gtried = [c \in Calls |-> {}]
    /\ gattempts = [c \in Calls |-> 0]
    /\ glast = [c \in Calls |-> NoOutcome]
    /\ gall429 = [c \in Calls |-> TRUE]
    /\ gresult = [c \in Calls |-> NoResult]
    /\ titems = <<>>
    /\ tbuilt = FALSE
    /\ ttree = NotBuilt
    /\ hreq = NoRequest
    /\ hpc = "idle"
    /\ hcalls = <<>>
    /\ hlast = NoGitHubOutcome
    /\ hctx = NoContext
    /\ hresp = NoResponse
    /\ oreq = NoOutlineRequest
    /\ opc = "idle"
    /\ ocalls = 0
    /\ ollm = GroqReturn(NoResult, <<>>)
    /\ oresp = NoResponse
    /\ isLoading = FALSE
    /\ treeFetches = 0
    /\ homeError = Undef
    /\ repoInfo = NoRepo
    /\ docState = InitialDocState
    /\ activeContent = Welcome
    /\ batch = Unmounted
    /\ clicks = [c \in Clicks |-> IdleClick]
    /\ views = [v \in Views |-> IdleView]
    /\ selected = <<>>
    /\ consoleLog = <<>>
    /\ failed = NoneFailed

\* the outline endpoint before a request arrives
InitOutline ==
    /\ nKeys = 0
    /\ currentApiKeyIndex = 0
    /\ allKeysExhausted = FALSE
    /\ gpc = [c \in Calls |-> "idle"]
    /\ gkey = [c \in Calls |-> NoKey]
    /\ gtried = [c \in Calls |-> {}]
    /\ gattempts = [c \in Calls |-> 0]
    /\ glast = [c \in Calls |-> NoOutcome]
    /\ gall429 = [c \in Calls |-> TRUE]
    /\ gresult = [c \in Calls |-> NoResult]
    /\ titems = <<>>
    /\ tbuilt = FALSE
    /\ ttree = NotBuilt
    /\ hreq = NoRequest
    /\ hpc = "idle"
    /\ hcalls = <<>>
    /\ hlast = NoGitHubOutcome
    /\ hctx = NoContext
    /\ hresp = NoResponse
    /\ oreq = NoOutlineRequest
    /\ opc = "idle"
    /\ ocalls = 0
    /\ ollm = GroqReturn(NoResult, <<>>)
    /\ oresp = NoResponse
    /\ isLoading = FALSE
    /\ treeFetches = 0
    /\ homeError = Undef
    /\ repoInfo = NoRepo
    /\ docState = InitialDocState
    /\ activeContent = Welcome
    /\ batch = Unmounted
    /\ clicks = [c \in Clicks |-> IdleClick]
    /\ views = [v \in Views |-> IdleView]
    /\ selected = <<>>
    /\ consoleLog = <<>>
    /\ failed = NoneFailed

\* the page as it is first rendered: the form, no repository
InitUI ==
    /\ nKeys = 0
    /\ currentApiKeyIndex = 0
    /\ allKeysExhausted = FALSE
    /\ gpc = [c \in Calls |-> "idle"]
    /\ gkey = [c \in Calls |-> NoKey]
    /\ gtried = [c \in Calls |-> {}]
    /\ gattempts = [c \in Calls |-> 0]
    /\ glast = [c \in Calls |-> NoOutcome]
    /\ gall429 = [c \in Calls |-> TRUE]
    /\ gresult = [c \in Calls |-> NoResult]
    /\ titems = <<>>
    /\ tbuilt = FALSE
    /\ ttree = NotBuilt
    /\ hreq = NoRequest
    /\ hpc = "idle"
    /\ hcalls = <<>>
    /\ hlast = NoGitHubOutcome
    /\ hctx = NoContext
    /\ hresp = NoResponse
    /\ oreq = NoOutlineRequest
    /\ opc = "idle"
    /\ ocalls = 0
    /\ ollm = GroqReturn(NoResult, <<>>)
    /\ oresp = NoResponse
    /\ isLoading = FALSE
    /\ treeFetches = 0
    /\ homeError = Undef
    /\ repoInfo = NoRepo
    /\ docState = InitialDocState
    /\ activeContent = Welcome
    /\ batch = Unmounted
    /\ clicks = [c \in Clicks |-> IdleClick]
    /\ views = [v \in Views |-> IdleView]
    /\ selected = <<>>
    /\ consoleLog = <<>>
    /\ failed = NoneFailed

\* calls one after another, never interleaved
NextGroqSeq ==
    \/ sendToGroqAlone(SoleCaller) /\ UNCHANGED <<treeVars, githubVars, outlineVars, uiVars>>
    \/ Settle(SoleCaller) /\ UNCHANGED <<treeVars, githubVars, outlineVars, uiVars>>

\* calls interleaving at their awaits on the shared rotation state
NextGroq ==
    \/ \E c \in Calls : sendToGroq(c) /\ UNCHANGED <<treeVars, githubVars, outlineVars, uiVars>>
    \/ \E c \in Calls : Settle(c) /\ UNCHANGED <<treeVars, githubVars, outlineVars, uiVars>>

SpecGroqSeq == InitGroq /\ [][NextGroqSeq]_vars

SpecGroq == InitGroq /\ [][NextGroq]_vars

\* every outstanding fetch eventually settles
FairSpecGroqSeq ==
    SpecGroqSeq /\ WF_vars(Settle(SoleCaller) /\ UNCHANGED <<treeVars, githubVars, outlineVars, uiVars>>)

NextTree == BuildFileTree /\ UNCHANGED <<groqVars, githubVars, outlineVars, uiVars>>

\* buildFileTree applied to every listing within the bounds
SpecTree == InitTree /\ [][NextTree]_vars

\* one request to one of the two GitHub endpoints; the handlers keep no state
\* between requests
NextGitHub ==
    \/ \E json \in BOOLEAN, url \in UrlInputs :
            TreePOST(json, url) /\ UNCHANGED <<groqVars, treeVars, outlineVars, uiVars>>
    \/ \E o \in GitHubOutcomes, b \in {MainBranch, <<"d", "e", "v">>} :
            TreeRepoSettles(o, b) /\ UNCHANGED <<groqVars, treeVars, outlineVars, uiVars>>
    \/ \E o \in GitHubOutcomes :
            TreeBranchSettles(o) /\ UNCHANGED <<groqVars, treeVars, outlineVars, uiVars>>
    \/ \E o \in GitHubOutcomes, l \in SampleListings, tr \in BOOLEAN :
            TreeListingSettles(o, l, tr) /\ UNCHANGED <<groqVars, treeVars, outlineVars, uiVars>>
    \/ \E json \in BOOLEAN, url \in UrlInputs, p \in FilePaths, b \in Branches :
            ContentPOST(json, url, p, b) /\ UNCHANGED <<groqVars, treeVars, outlineVars, uiVars>>
    \/ \E o \in GitHubOutcomes, ty \in UpstreamTypes, c \in UpstreamContents :
            ContentSettles(o, ty, c) /\ UNCHANGED <<groqVars, treeVars, outlineVars, uiVars>>

SpecGitHub == InitGitHub /\ [][NextGitHub]_vars

\* one request to the outline endpoint, answered by every text of up to
\* MaxTextLen tokens
NextOutline ==
    \/ \E json \in BOOLEAN, repoName \in BOOLEAN, files \in {"missing", "empty", "some"} :
            OutlinePOST(json, repoName, files)
            /\ UNCHANGED <<groqVars, treeVars, githubVars, uiVars>>
    \/ \E r \in {NoCredentials, AllCredentialsExhausted, UpstreamError(500),
                  EmptyResponse, ThrownError} :
            OutlineGroqReturns(GroqReturn(r, <<>>))
            /\ UNCHANGED <<groqVars, treeVars, githubVars, uiVars>>
    \/ \E n \in 1..MaxTextLen : \E content \in TextsOfLength(n) :
            OutlineGroqReturns(GroqReturn(Success, content))
            /\ UNCHANGED <<groqVars, treeVars, githubVars, uiVars>>

SpecOutline == InitOutline /\ [][NextOutline]_vars

\* a session of the page, from the form to the end of one mounted
\* DocumentationLayout (handleBack, which unmounts it, ends the session): a
\* repository of up to MaxSessionFiles root entries is loaded, its
\* documentation is generated, and chapters and files are clicked at any
\* time; a file is clicked once the file clicked before it has arrived
\* (files clicked while a file request is outstanding are SpecViews)
NextUI ==
    \/ \E url \in UrlTexts :
            HandleSubmit(url)
            /\ UNCHANGED <<groqVars, treeVars, githubVars, outlineVars>>
    \/ \E o \in UiOutcomes, n \in 0..MaxSessionFiles :
            TreeLoadSettles(o, RepoTree(n))
            /\ UNCHANGED <<groqVars, treeVars, githubVars, outlineVars>>
    \/ GenerateDocumentation
            /\ UNCHANGED <<groqVars, treeVars, githubVars, outlineVars>>
    \/ \E o \in KeyFileOutcomes :
            BatchKeyFileSettles(o)
            /\ UNCHANGED <<groqVars, treeVars, githubVars, outlineVars>>
    \/ \E o \in UiOutcomes, chapters \in SampleOutlines :
            OutlineSettles(o, chapters)
            /\ UNCHANGED <<groqVars, treeVars, githubVars, outlineVars>>
    \/ \E o \in ContentGenOutcomes, text \in Texts :
            BatchContentSettles(o, text)
            /\ UNCHANGED <<groqVars, treeVars, githubVars, outlineVars>>
    \/ \E c \in Clicks, id \in ChapterIds :
            HandleChapterClick(c, id)
            /\ UNCHANGED <<groqVars, treeVars, githubVars, outlineVars>>
    \/ \E c \in Clicks, o \in KeyFileOutcomes :
            ClickKeyFileSettles(c, o)
            /\ UNCHANGED <<groqVars, treeVars, githubVars, outlineVars>>
    \/ \E c \in Clicks, o \in ContentGenOutcomes, text \in Texts :
            ClickContentSettles(c, o, text)
            /\ UNCHANGED <<groqVars, treeVars, githubVars, outlineVars>>
    \/ \E v \in Views, i \in 1..MaxSessionFiles :
            /\ \A w \in Views : views[w].pc = "idle"
            /\ \A w \in Views : v <= w
            /\ HandleFileClick(v, i)
            /\ UNCHANGED <<groqVars, treeVars, githubVars, outlineVars>>
    \/ \E v \in Views, o \in UiOutcomes :
            FileSettles(v, o)
            /\ UNCHANGED <<groqVars, treeVars, githubVars, outlineVars>>

SpecUI == InitUI /\ [][NextUI]_vars

\* the runs of generateDocumentation alone, without any click: a repository
\* of up to MaxSessionFiles root entries is loaded and its documentation is
\* generated, again after a run that failed
NextBatch ==
    \/ \E url \in UrlTexts :
            HandleSubmit(url)
            /\ UNCHANGED <<groqVars, treeVars, githubVars, outlineVars>>
    \/ \E o \in UiOutcomes, n \in 0..MaxSessionFiles :
            TreeLoadSettles(o, RepoTree(n))
            /\ UNCHANGED <<groqVars, treeVars, githubVars, outlineVars>>
    \/ GenerateDocumentation
            /\ UNCHANGED <<groqVars, treeVars, githubVars, outlineVars>>
    \/ \E o \in KeyFileOutcomes :
            BatchKeyFileSettles(o)
            /\ UNCHANGED <<groqVars, treeVars, githubVars, outlineVars>>
    \/ \E o \in UiOutcomes, chapters \in SampleOutlines :
            OutlineSettles(o, chapters)
            /\ UNCHANGED <<groqVars, treeVars, githubVars, outlineVars>>
    \/ \E o \in ContentGenOutcomes, text \in Texts :
            BatchContentSettles(o, text)
            /\ UNCHANGED <<groqVars, treeVars, githubVars, outlineVars>>

\* every request the batch has issued eventually receives a response
FairSpecBatch ==
    /\ InitUI
    /\ [][NextBatch]_vars
    /\ WF_vars(/\ \E o \in KeyFileOutcomes : BatchKeyFileSettles(o)
               /\ UNCHANGED <<groqVars, treeVars, githubVars, outlineVars>>)
    /\ WF_vars(/\ \E o \in UiOutcomes, chapters \in SampleOutlines :
                    OutlineSettles(o, chapters)
               /\ UNCHANGED <<groqVars, treeVars, githubVars, outlineVars>>)
    /\ WF_vars(/\ \E o \in ContentGenOutcomes, text \in Texts :
                    BatchContentSettles(o, text)
               /\ UNCHANGED <<groqVars, treeVars, githubVars, outlineVars>>)

\* the files of a loaded repository viewed with up to NumViews requests of
\* fetchFileContent outstanding at once; no documentation is generated
NextViews ==
    \/ \E url \in UrlTexts :
            HandleSubmit(url)
            /\ UNCHANGED <<groqVars, treeVars, githubVars, outlineVars>>
    \/ \E o \in UiOutcomes, n \in 0..MaxSessionFiles :
            TreeLoadSettles(o, RepoTree(n))
            /\ UNCHANGED <<groqVars, treeVars, githubVars, outlineVars>>
    \/ \E v \in Views, i \in 1..MaxSessionFiles :
            HandleFileClick(v, i)
            /\ UNCHANGED <<groqVars, treeVars, githubVars, outlineVars>>
    \/ \E v \in Views, o \in UiOutcomes :
            FileSettles(v, o)
            /\ UNCHANGED <<groqVars, treeVars, githubVars, outlineVars>>

SpecViews == InitUI /\ [][NextViews]_vars

\* the key files of repositories of up to MaxTreeFiles root entries: the
\* documentation of one chapter is generated, and chapters are clicked once
\* it is done, one run at a time
NextKeyFiles ==
    \/ \E url \in UrlTexts :
            HandleSubmit(url)
            /\ UNCHANGED <<groqVars, treeVars, githubVars, outlineVars>>
    \/ \E n \in 0..MaxTreeFiles :
            TreeLoadSettles("ok", RepoTree(n))
            /\ UNCHANGED <<groqVars, treeVars, githubVars, outlineVars>>
    \/ GenerateDocumentation
            /\ UNCHANGED <<groqVars, treeVars, githubVars, outlineVars>>
    \/ \E o \in KeyFileOutcomes :
            BatchKeyFileSettles(o)
            /\ UNCHANGED <<groqVars, treeVars, githubVars, outlineVars>>
    \/ \E o \in {"error", "ok"} :
            OutlineSettles(o, << chapterOf("a", "A", <<>>) >>)
            /\ UNCHANGED <<groqVars, treeVars, githubVars, outlineVars>>
    \/ \E o \in ContentGenOutcomes :
            BatchContentSettles(o, "T1")
            /\ UNCHANGED <<groqVars, treeVars, githubVars, outlineVars>>
    \/ \E c \in Clicks, id \in ChapterIds :
            /\ batch.pc = "done"
            /\ \A d \in Clicks : clicks[d].pc = "idle"
            /\ HandleChapterClick(c, id)
            /\ UNCHANGED <<groqVars, treeVars, githubVars, outlineVars>>
    \/ \E c \in Clicks, o \in KeyFileOutcomes :
            ClickKeyFileSettles(c, o)
            /\ UNCHANGED <<groqVars, treeVars, githubVars, outlineVars>>
    \/ \E c \in Clicks, o \in ContentGenOutcomes :
            ClickContentSettles(c, o, "T2")
            /\ UNCHANGED <<groqVars, treeVars, githubVars, outlineVars>>

SpecKeyFiles == InitUI /\ [][NextKeyFiles]_vars

(***************************************************************************)
(* Properties of the Groq client                                           *)
(***************************************************************************)

\* C1: every top-level call on a client with N >= 1 credentials whose
\* attempts were all answered 429 has attempted exactly N distinct
\* credentials and failed with AllCredentialsExhausted, whatever rotation
\* state earlier calls left.
C1_AttemptsAllCredentials ==
    \A c \in Calls :
        (nKeys >= 1 /\ gpc[c] = "done" /\ gall429[c]) =>
            /\ gattempts[c] = nKeys
            /\ Cardinality(gtried[c]) = nKeys
            /\ gresult[c] = AllCredentialsExhausted

\* C2: a call that runs with no other call interleaved makes at most one
\* fetch per configured credential, never the same credential twice, and
\* every call that is waiting for a fetch eventually returns.
C2_OneAttemptPerCredential ==
    /\ [](\A c \in Calls :
            /\ gattempts[c] <= nKeys
            /\ Cardinality(gtried[c]) = gattempts[c])
    /\ \A c \in Calls : (gpc[c] = "fetching") ~> (gpc[c] = "done")

\* a call that started on a later credential, was rate limited on every
\* credential up to the last, and returned
C2_Witness ==
    \E c \in Calls :
        /\ gpc[c] = "done"
        /\ nKeys = NumKeySlots
        /\ gattempts[c] = 2
        /\ gresult[c] = AllCredentialsExhausted

\* C3: with no credential configured every call returns NoCredentials, no
\* fetch is ever issued, the credential index stays where it was and the
\* exhausted flag is false.
C3_NoCredentials ==
    nKeys = 0 =>
        /\ currentApiKeyIndex = 0
        /\ allKeysExhausted = FALSE
        /\ \A c \in Calls :
            /\ gattempts[c] = 0
            /\ gpc[c] # "fetching"
            /\ gpc[c] = "done" => gresult[c] = NoCredentials

C3_Witness ==
    /\ nKeys = 0
    /\ \E c \in Calls : gpc[c] = "done" /\ gresult[c] = NoCredentials

\* a fetch of call c settles in this step with a response whose status is
\* neither a success nor 429
GotOtherErrorStatus(c) ==
    /\ gpc[c] = "fetching"
    /\ glast'[c].kind = "response"
    /\ ~ResponseOk(glast'[c].status)
    /\ glast'[c].status # 429

\* C4: when a fetch is answered with a non-success status other than 429,
\* the call returns in that same step an UpstreamError carrying the status,
\* issues no further fetch and leaves the credential index unchanged.
C4_OtherStatusFailsAtOnce ==
    [][\A c \in Calls :
        GotOtherErrorStatus(c) =>
            /\ gpc'[c] = "done"
            /\ gresult'[c] = UpstreamError(glast'[c].status)
            /\ gattempts'[c] = gattempts[c]
            /\ currentApiKeyIndex' = currentApiKeyIndex]_vars

\* a call answered 500 on a credential other than the first one
C4_Witness ==
    \E c \in Calls :
        /\ gpc[c] = "done"
        /\ glast[c].status = 500
        /\ gresult[c] = UpstreamError(500)
        /\ gattempts[c] = 2
        /\ currentApiKeyIndex = 1

(***************************************************************************)
(* Properties of buildFileTree                                             *)
(***************************************************************************)
\* how often object k occurs in an array of objects
Occurrences(arr, k) == Cardinality({i \in 1..Len(arr) : arr[i] = k})

\* the objects of the returned hierarchy: those reached from the root array
RECURSIVE ReachedFrom(_, _)
ReachedFrom(tree, S) ==
    LET S2 == S \cup UNION { {tree.nodes[k].children.list[i] :
                                i \in 1..Len(tree.nodes[k].children.list)} : k \in S }
    IN  IF S2 = S THEN S ELSE ReachedFrom(tree, S2)

Hierarchy(tree) == ReachedFrom(tree, {tree.root[i] : i \in 1..Len(tree.root)})

\* a path without its last segment; the empty string for a one-segment path
ParentPathOf(path) ==
    LET last == IF \E i \in 1..Len(path) : path[i] = "/"
                THEN CHOOSE i \in 1..Len(path) :
                        path[i] = "/" /\ \A j \in (i + 1)..Len(path) : path[j] # "/"
                ELSE 0
    IN  IF last = 0 THEN <<>> ELSE SubSeq(path, 1, last - 1)

\* every entry below the top level has its parent folder in the listing
ParentsListed(items) ==
    \A i \in 1..Len(items) :
        ParentPathOf(items[i].path) # <<>> =>
            \E j \in 1..Len(items) :
                /\ items[j].path = ParentPathOf(items[i].path)
                /\ items[j].type = "tree"

\* the objects made for the entry with this path
NodesOf(tree, path) == {k \in 1..Len(tree.nodes) : tree.nodes[k].path = path}

\* C6: for a listing with distinct paths whose non-root entries all have
\* their parent folder listed, in any order: a one-segment entry is in the
\* root array, every other entry is in the children array of the folder
\* whose path is the entry's path without its last segment, and no entry
\* occurs a second time or anywhere else.
C6_EntriesUnderTheirParent ==
    (tbuilt /\ ParentsListed(titems)) =>
        \A i \in 1..Len(titems) :
            \E k \in NodesOf(ttree, titems[i].path) :
                /\ NodesOf(ttree, titems[i].path) = {k}
                /\ LET parent == ParentPathOf(titems[i].path)
                       holders == {h \in 1..Len(ttree.nodes) :
                                     Occurrences(ttree.nodes[h].children.list, k) > 0}
                   IN  IF parent = <<>>
                       THEN /\ Occurrences(ttree.root, k) = 1
                            /\ holders = {}
                       ELSE /\ Occurrences(ttree.root, k) = 0
                            /\ \E h \in holders :
                                /\ holders = {h}
                                /\ Occurrences(ttree.nodes[h].children.list, k) = 1
                                /\ ttree.nodes[h].path = parent
                                /\ ttree.nodes[h].type = "folder"

\* a three-level listing given deepest entry first
C6_Witness ==
    /\ tbuilt
    /\ ParentsListed(titems)
    /\ Len(titems) = 3
    /\ titems[1].path = <<"a", "/", "b", "/", "c">>
    /\ titems[2].path = <<"a", "/", "b">>
    /\ titems[3].path = <<"a">>
    /\ Len(ttree.root) = 1

\* C7: in the returned hierarchy every folder node has a children array
\* (possibly empty), no file node has one, and a node is a folder exactly
\* when its entry's type is tree.
C7_ChildrenIffFolder ==
    tbuilt =>
        \A k \in Hierarchy(ttree) :
            LET node == ttree.nodes[k]
            IN  /\ node.type \in {"file", "folder"}
                /\ node.type = "folder" <=> node.children.defined
                /\ \A i \in 1..Len(titems) :
                     titems[i].path = node.path =>
                        (node.type = "folder" <=> titems[i].type = "tree")

\* a hierarchy holding a folder with a child, a file and a submodule entry
C7_Witness ==
    /\ tbuilt
    /\ \E k \in Hierarchy(ttree) : Len(ttree.nodes[k].children.list) > 0
    /\ \E i \in 1..Len(titems) :
         /\ titems[i].type = "blob"
         /\ NodesOf(ttree, titems[i].path) \subseteq Hierarchy(ttree)
    /\ \E i \in 1..Len(titems) :
         /\ titems[i].type = "commit"
         /\ NodesOf(ttree, titems[i].path) \subseteq Hierarchy(ttree)

(***************************************************************************)
(* Properties of the GitHub endpoints                                      *)
(***************************************************************************)
\* the url of the request does not parse, or its host does not contain
\* github.com, or its path has fewer than two segments
RejectedUrl(url) ==
    \/ url.kind # "url"
    \/ ~(\E i \in 1..Len(url.hostname) :
            /\ i + Len(GitHubToken) - 1 <= Len(url.hostname)
            /\ \A j \in 1..Len(GitHubToken) : url.hostname[i + j - 1] = GitHubToken[j])
    \/ Cardinality({i \in 1..Len(url.pathname) :
                      /\ url.pathname[i] # "/"
                      /\ (i = 1 \/ url.pathname[i - 1] = "/")}) < 2

\* C5: a request to the tree or the content endpoint whose url does not
\* parse, has a host without github.com, or has a path of fewer than two
\* segments is answered 400, and no upstream call is issued for it.
C5_BadUrlIs400 ==
    (hreq.endpoint \in {"tree", "content"} /\ hreq.json /\ RejectedUrl(hreq.url)) =>
        /\ hpc = "done"
        /\ hresp.status = 400
        /\ hcalls = <<>>

\* the tree endpoint has answered a request for gitlab.com/o/r
C5_Witness ==
    /\ hreq.endpoint = "tree"
    /\ hreq.json
    /\ hreq.url.kind = "url"
    /\ hreq.url.hostname = <<"g", "i", "t", "l", "a", "b", ".", "c", "o", "m">>
    /\ hreq.url.pathname = <<"/", "o", "/", "r">>
    /\ hpc = "done"
    /\ hresp.error = "Invalid GitHub URL"

\* C8: when the repository-metadata call of the tree endpoint is answered
\* 404, the endpoint answers 404 with the error "Repository not found" and
\* issues neither the branch call nor the tree call.
C8_RepoNotFound ==
    [][(hpc = "repo" /\ hlast'.kind = "response" /\ hlast'.status = 404) =>
            /\ hpc' = "done"
            /\ hresp'.status = 404
            /\ hresp'.error = "Repository not found"
            /\ hcalls' = <<"repo">>]_vars

C8_Witness ==
    /\ hreq.endpoint = "tree"
    /\ hpc = "done"
    /\ hcalls = <<"repo">>
    /\ hlast.status = 404
    /\ hresp.status = 404
    /\ hresp.error = "Repository not found"

\* C9: whenever an upstream call (repository metadata, branch metadata or
\* contents) is answered 404, the endpoint answers 404.
C9_Upstream404Is404 ==
    [][(hpc \in {"repo", "branch", "contents"}
        /\ hlast'.kind = "response" /\ hlast'.status = 404) =>
            /\ hpc' = "done"
            /\ hresp'.status = 404]_vars

\* C10: when the contents call answers with something that is not a file,
\* the content endpoint answers 404 with the error "Path is not a file".
C10_NotAFileIs404 ==
    [][(hpc = "contents" /\ hlast'.kind = "response" /\ ResponseOk(hlast'.status)
        /\ hlast'.shaped /\ hlast'.type # "file") =>
            /\ hpc' = "done"
            /\ hresp'.error = "Path is not a file"
            /\ hresp'.status = 404]_vars

\* the part of a path after its last "/"
FinalSegment(path) ==
    LET segments == split(path, "/")
    IN  segments[Len(segments)]

\* the text the upstream base64 contents stand for, as character codes
DecodedText(text) ==
    CASE text = <<"a", "G", "k", "=", "\n">> -> <<104, 105>>
      [] text = <<"Y", "Q", "=", "=", "\n">> -> <<97>>
      [] text = <<>> -> <<>>

\* the content endpoint answered 200 for a path whose final segment has no "."
ServedDotlessFile ==
    /\ hreq.endpoint = "content"
    /\ hpc = "done"
    /\ hresp.status = 200
    /\ ~includes(FinalSegment(hreq.path), <<".">>)

\* C11 (as stated): for a file whose path has no "." in its final segment,
\* a successful response of the content endpoint has isMedia false, carries
\* the decoded content, and has the empty string as its extension.
C11_DotlessExtensionEmpty ==
    ServedDotlessFile =>
        /\ ~hresp.body.isMedia
        /\ hresp.body.content = DecodedText(hlast.content.text)
        /\ hresp.body.extension = <<>>

\* C11 (amended): for a file whose path has no "." the extension of a
\* successful response is the whole path in lower case, never the empty
\* string: README is answered with extension "readme", isMedia false and
\* the decoded content, and a file named pdf is answered as a pdf media
\* reference.
C11_DotlessExtensionIsName ==
    ServedDotlessFile =>
        /\ hresp.body.extension # <<>>
        /\ hreq.path = <<"R", "E", "A", "D", "M", "E">> =>
            /\ hresp.body.extension = <<"r", "e", "a", "d", "m", "e">>
            /\ ~hresp.body.isMedia
            /\ hresp.body.content = DecodedText(hlast.content.text)
        /\ hreq.path = <<"p", "d", "f">> =>
            /\ hresp.body.extension = <<"p", "d", "f">>
            /\ hresp.body.isMedia
            /\ hresp.body.mediaType = "pdf"

\* README was served with the text "hi"
C11_Witness ==
    /\ ServedDotlessFile
    /\ hreq.path = <<"R", "E", "A", "D", "M", "E">>
    /\ hlast.content.text = <<"a", "G", "k", "=", "\n">>
    /\ hresp.body.content = <<104, 105>>
    /\ ~hresp.body.isMedia

(***************************************************************************)
(* Properties of the rotation state                                        *)
(***************************************************************************)
\* a top-level call of c begins in this step and goes on to fetch
CallBegins(c) == gpc[c] # "fetching" /\ gpc'[c] = "fetching"

\* a fetch of call c settles in this step: the call returns or retries
FetchSettled(c) ==
    /\ gpc[c] = "fetching"
    /\ gpc'[c] = "done" \/ gattempts'[c] = gattempts[c] + 1

\* C19: the exhausted flag is false after the start of every top-level
\* call, and no later step of a call (a retry or a return) sets it back to
\* false: once true it stays true until the next top-level call begins.
C19_FlagResetOnlyAtCallStart ==
    [][/\ (\E c \in Calls : CallBegins(c)) => ~allKeysExhausted'
       /\ (\E c \in Calls : FetchSettled(c)) =>
            (allKeysExhausted => allKeysExhausted')]_vars

\* a call rotated through both credentials in retries and set the flag
C19_Witness ==
    \E c \in Calls :
        /\ nKeys = 2
        /\ gpc[c] = "done"
        /\ gattempts[c] = 2
        /\ gresult[c] = AllCredentialsExhausted
        /\ allKeysExhausted

\* C20 (as stated): no step of any call, alone or interleaved with other
\* calls, decreases the credential index.
C20_IndexNeverDecreases ==
    [][currentApiKeyIndex' >= currentApiKeyIndex]_vars

\* C20 (amended): the credential index decreases only when a rotation wraps
\* past the last credential: it is then reset to 0, the exhausted flag is
\* set and the rotating call returns AllCredentialsExhausted; every other
\* step leaves the index alone or raises it by exactly one.
C20_IndexDecreasesOnlyByWrap ==
    [][/\ currentApiKeyIndex' < currentApiKeyIndex =>
            /\ currentApiKeyIndex = nKeys - 1
            /\ currentApiKeyIndex' = 0
            /\ allKeysExhausted'
            /\ \E c \in Calls :
                /\ FetchSettled(c)
                /\ glast'[c].status = 429
                /\ gresult'[c] = AllCredentialsExhausted
       /\ currentApiKeyIndex' > currentApiKeyIndex =>
            currentApiKeyIndex' = currentApiKeyIndex + 1]_vars

\* one call wrapped the index back to the first credential while another
\* call was waiting for its fetch
C20_Witness ==
    \E c, d \in Calls :
        /\ nKeys >= 2
        /\ gpc[c] = "done"
        /\ gresult[c] = AllCredentialsExhausted
        /\ gattempts[c] >= 2
        /\ currentApiKeyIndex = 0
        /\ allKeysExhausted
        /\ gpc[d] = "fetching"


(***************************************************************************)
(* Properties of the outline endpoint                                      *)
(***************************************************************************)
\* the client succeeded and its text, with the fenced block taken out when
\* there is one, is no JSON value
AnswerIsNotJSON ==
    /\ opc = "done"
    /\ ollm.success
    /\ ~jsonParses(jsonStrOf(ollm.content))

\* C16: when the LLM's text is not valid JSON after the optional fenced block
\* is stripped, the outline endpoint answers 500 with the message "Failed to
\* parse documentation outline", and the request has made one top-level call
\* of the client and no second one
C16_ParseFailureIs500 ==
    /\ ocalls <= 1
    /\ AnswerIsNotJSON =>
          /\ oresp.status = 500
          /\ oresp.error = "Failed to parse documentation outline"
          /\ oresp.body = NoBody
          /\ ocalls = 1

\* a fenced block tagged json that holds an unclosed array was answered
C16_Witness ==
    /\ AnswerIsNotJSON
    /\ ollm.content = <<Fence, "json", " ", "[", Fence>>
    /\ jsonStrOf(ollm.content) = <<"[">>
    /\ oresp.status = 500

(***************************************************************************)
(* Properties of the documentation page                                    *)
(***************************************************************************)
\* the generated-content cache holds a text for the chapter id
Cached(id) == id \in DOMAIN docState.generatedContent

\* C12: a click on a chapter whose id is in the generated-content cache starts
\* no run of generateChapterContent (no key-file fetch, no request to the
\* content generator), leaves the cache and every request in flight as they
\* are, and shows exactly the cached text of that id
C12_CachedChapterIsShown ==
    [][\A c \in Clicks, id \in ChapterIds :
          (Cached(id) /\ HandleChapterClick(c, id)) =>
              /\ clicks' = clicks
              /\ batch' = batch
              /\ views' = views
              /\ docState' = docState
              /\ activeContent' =
                    ChapterView(id, docState.generatedContent[id], FALSE, Undef)]_vars

\* chapter a, cached by the batch, is shown while the batch generates
\* chapter b and no on-demand run is under way
C12_Witness ==
    /\ batch.pc = "content"
    /\ batch.allChapters[batch.chapterIndex].id = "b"
    /\ Cached("a")
    /\ \A c \in Clicks : clicks[c].pc = "idle"
    /\ activeContent = ChapterView("a", docState.generatedContent["a"], FALSE, Undef)

\* C13: the generated-content cache is append-only: once it holds a text for
\* a chapter id, no step of the batch or of an on-demand run removes the
\* entry or replaces its text
C13_CacheAppendOnly ==
    [][\A id \in ChapterIds :
          Cached(id) =>
              /\ Cached(id)'
              /\ docState'.generatedContent[id] = docState.generatedContent[id]]_vars

\* the requests to the content generator that are in flight: the batch's and
\* those of the on-demand runs
ContentRequestsInFlight ==
    (IF batch.pc = "content" THEN 1 ELSE 0)
        + Cardinality({c \in Clicks : clicks[c].pc = "content"})

\* C14: at every moment of a session at most one request to the content
\* generator is in flight, a click on a chapter while the batch runs included
C14_OneContentRequestAtATime == ContentRequestsInFlight <= 1

\* this step is the batch's request to the content generator settling as a
\* failure: the fetch threw or the response was not ok
BatchChapterFails ==
    /\ batch.pc = "content"
    /\ failed' = [kind |-> "content", by |-> "generateDocumentation"]

\* C15: when the content generation of a chapter fails in the batch, the
\* cache is left as it is (the chapter's id is not added), no error state is
\* set, and the batch goes on: it issues the request of the next chapter of
\* the flattened outline, or ends normally after the last one
C15_FailedChapterIsSkipped ==
    [][BatchChapterFails =>
          /\ docState'.generatedContent = docState.generatedContent
          /\ docState'.error = Undef
          /\ activeContent' = activeContent
          /\ IF batch.chapterIndex < Len(batch.allChapters)
             THEN /\ batch'.pc = "content"
                  /\ batch'.allChapters = batch.allChapters
                  /\ batch'.chapterIndex = batch.chapterIndex + 1
                  /\ docState'.isGeneratingContent
             ELSE /\ batch'.pc = "done"
                  /\ ~docState'.isGeneratingContent]_vars

\* the batch is over, without any click: the request of chapter a failed and
\* was logged, that of the later chapter b was made and cached, and no error
\* is set
C15_Witness ==
    /\ batch.pc = "done"
    /\ activeContent = Welcome
    /\ Len(consoleLog) = 1
    /\ consoleLog[1].title = "A"
    /\ ~Cached("a")
    /\ Cached("b")
    /\ docState.error = Undef

\* this step surfaces an error: an error state of the page is set after it,
\* or it wrote a log entry
ErrorSurfaced ==
    \/ homeError' # Undef
    \/ docState'.error # Undef
    \/ activeContent'.error # Undef
    \/ consoleLog' # consoleLog

\* C17 as stated: every failed request of the page, but the per-chapter
\* requests of the batch, is reported in the step in which it fails, by an
\* error state or by a log entry
C17_EveryFailureReported ==
    [][(/\ failed'.kind # "none"
        /\ failed' # [kind |-> "content", by |-> "generateDocumentation"])
          => ErrorSurfaced]_vars

\* C17, amended: a failed tree load, file view, outline generation or
\* on-demand chapter generation sets the error state of its view in the step
\* in which it fails; a failed per-chapter request of the batch is written to
\* the log and sets no error state; a failed key-file fetch writes no log
\* entry and sets no error state, unless the batch is left without any key
\* file and fails for that reason
C17_FailuresReportedButKeyFiles ==
    [][/\ failed'.kind = "tree" => homeError' # Undef
       /\ failed'.kind = "file" =>
            activeContent'.type = "file" /\ activeContent'.error # Undef
       /\ failed'.kind = "outline" => docState'.error # Undef
       /\ failed' = [kind |-> "content", by |-> "generateChapterContent"] =>
            activeContent'.type = "chapter" /\ activeContent'.error # Undef
       /\ failed' = [kind |-> "content", by |-> "generateDocumentation"] =>
            /\ Len(consoleLog') = Len(consoleLog) + 1
            /\ docState'.error = Undef
            /\ activeContent' = activeContent
       /\ failed'.kind = "keyFile" =>
            /\ consoleLog' = consoleLog
            /\ activeContent' = activeContent
            /\ homeError' = homeError
            /\ docState'.error # Undef =>
                  /\ failed'.by = "generateDocumentation"
                  /\ batch.keyFiles = <<>>
                  /\ docState'.error = "No key files found to generate documentation"]_vars

\* the fetch of the batch's last key file has just failed, the batch goes on
\* to the outline with the key file it has, and nothing shows or logs the
\* failure
C17_Witness ==
    /\ failed = [kind |-> "keyFile", by |-> "generateDocumentation"]
    /\ batch.pc = "outline"
    /\ Len(batch.keyFiles) = 1
    /\ homeError = Undef
    /\ docState.error = Undef
    /\ activeContent = Welcome
    /\ consoleLog = <<>>

\* C18: a run of collectKeyFiles fetches at most 8 files, so the key-file
\* list handed to the outline generator and to every request of the content
\* generator, the batch's and an on-demand run's, has at most 8 entries,
\* however many key files the repository tree holds
C18_AtMostEightKeyFiles ==
    /\ batch.keyIndex <= 8
    /\ Len(batch.keyFiles) <= 8
    /\ \A c \in Clicks :
          /\ clicks[c].keyIndex <= 8
          /\ Len(clicks[c].keyFiles) <= 8

\* the tree holds more than 8 key files, every fetch of the batch's
\* collectKeyFiles gave a content, and the outline is asked with 8 files
C18_Witness ==
    /\ repoInfo.loaded
    /\ Len(findFiles(repoInfo.tree)) > 8
    /\ batch.pc = "outline"
    /\ Len(batch.keyFiles) = 8

(***************************************************************************)
(* Properties of the order and the size of buildFileTree's hierarchy       *)
(***************************************************************************)
\* the lists of the returned hierarchy: the root array and the children
\* array of every folder reached from it
ListsOf(tree) ==
    {tree.root} \cup {tree.nodes[k].children.list : k \in Hierarchy(tree)}

\* in a list of objects every folder comes before every file, and two nodes
\* of one kind are in ascending order of their paths
FoldersFirstThenByPath(tree, list) ==
    \A i, j \in 1..Len(list) :
        i < j =>
            LET a == tree.nodes[list[i]]
                b == tree.nodes[list[j]]
            IN  /\ ~(a.type = "file" /\ b.type = "folder")
                /\ a.type = b.type => localeCompare(a.path, b.path) < 0

\* C21: in the root list and in the children list of every folder that
\* buildFileTree returns, all folders come before all files and within each
\* kind the nodes are in ascending path order, whatever the order of the
\* input list
C21_FoldersBeforeFilesByPath ==
    tbuilt => \A list \in ListsOf(ttree) : FoldersFirstThenByPath(ttree, list)

\* a folder given after its two children, which are given file first and
\* in descending order of their paths
C21_Witness ==
    /\ tbuilt
    /\ Len(titems) = 3
    /\ titems[1] = [path |-> <<"a", "/", "b">>, type |-> "blob",
                    sha |-> <<"sha", <<"a", "/", "b">>, "blob">>]
    /\ titems[2] = [path |-> <<"a", "/", "a">>, type |-> "tree",
                    sha |-> <<"sha", <<"a", "/", "a">>, "tree">>]
    /\ titems[3].path = <<"a">>
    /\ titems[3].type = "tree"
    /\ Len(ttree.root) = 1
    /\ Len(ttree.nodes[ttree.root[1]].children.list) = 2

(***************************************************************************)
(* More properties of the documentation page                               *)
(***************************************************************************)
\* the chapters of an outline in depth-first pre-order: those before the
\* last top-level chapter, that chapter, then its descendants
RECURSIVE DepthFirst(_)
DepthFirst(chapters) ==
    IF Len(chapters) = 0 THEN <<>>
    ELSE LET last == chapters[Len(chapters)]
         IN  DepthFirst(SubSeq(chapters, 1, Len(chapters) - 1))
                \o <<last>> \o DepthFirst(last.children)

\* C22: after a successful outline the batch issues one request to the
\* content generator per chapter of the outline, descendants included, in
\* depth-first pre-order: the first request is for the first chapter, the
\* request of the next chapter is issued in the step in which the previous
\* one settles, the batch ends when the last one settles, and a success has
\* put the chapter's text into the cache when the next request is issued
C22_OneRequestPerChapterInOrder ==
    [][/\ (batch.pc = "outline" /\ batch'.pc = "content") =>
            /\ batch'.allChapters = DepthFirst(docState'.chapters)
            /\ batch'.chapterIndex = 1
       /\ (batch.pc = "outline" /\ batch'.pc = "done" /\ docState'.error = Undef) =>
            DepthFirst(docState'.chapters) = <<>>
       /\ (batch.pc = "content" /\ batch' # batch) =>
            /\ batch.chapterIndex \in 1..Len(batch.allChapters)
            /\ IF batch.chapterIndex < Len(batch.allChapters)
               THEN /\ batch'.pc = "content"
                    /\ batch'.allChapters = batch.allChapters
                    /\ batch'.chapterIndex = batch.chapterIndex + 1
               ELSE batch'.pc = "done"
            /\ failed' = NoneFailed =>
                 LET id == batch.allChapters[batch.chapterIndex].id
                 IN  /\ id \in DOMAIN docState'.generatedContent
                     /\ docState'.generatedContent[id] \in Texts
       /\ (batch.pc # "content" /\ batch'.pc = "content") => batch.pc = "outline"]_vars

\* without any click, the request of chapter a succeeded and its text is
\* cached while the request of its sub-chapter b, the second in pre-order,
\* is in flight
C22_Witness ==
    /\ batch.pc = "content"
    /\ Len(batch.allChapters) = 2
    /\ batch.chapterIndex = 2
    /\ batch.allChapters[2].id = "b"
    /\ docState.chapters[1].children = << chapterOf("b", "B", <<>>) >>
    /\ activeContent = Welcome
    /\ Cached("a")
    /\ ~Cached("b")

\* a run of generateDocumentation is under way
BatchRunning == batch.pc \in {"keyFiles", "outline", "content"}

\* the run is over and the page says so
BatchAtRest ==
    /\ batch.pc = "done"
    /\ ~docState.isGenerating
    /\ ~docState.isGeneratingContent
    /\ docState.currentGeneratingChapter = Undef

\* C23: when every request of the batch eventually receives a response,
\* every run of generateDocumentation eventually ends with isGenerating and
\* isGeneratingContent false and currentGeneratingChapter cleared, for every
\* outline and every pattern of failed requests
C23_BatchEventuallyAtRest == BatchRunning ~> BatchAtRest

\* a run is over that had an outline of two chapters and lost the request
\* of one of them
C23_Witness ==
    /\ BatchAtRest
    /\ Len(docState.chapters) > 0
    /\ Len(consoleLog) = 1
    /\ docState.error = Undef

(***************************************************************************)
(* Properties of the hosts parseGitHubUrl accepts                          *)
(***************************************************************************)
\* C24: a request to the tree or the content endpoint whose url parses and
\* has a host other than github.com, a host that merely contains the text
\* github.com included, is answered 400 "Invalid GitHub URL", and no
\* upstream call is issued for it.
C24_OnlyGitHubHostAccepted ==
    (/\ hreq.endpoint \in {"tree", "content"}
     /\ hreq.json
     /\ hreq.url.kind = "url"
     /\ hreq.url.hostname # GitHubToken) =>
        /\ hpc = "done"
        /\ hresp.status = 400
        /\ hcalls = <<>>

(***************************************************************************)
(* More properties of the Groq client                                      *)
(***************************************************************************)
\* call c returns in this step
CallReturns(c) == gpc[c] = "fetching" /\ gpc'[c] = "done"

\* C25: the credential index persists across calls that follow one another:
\* a call that returns anything but AllCredentialsExhausted leaves the index
\* at the credential of its last attempt, a call that returns
\* AllCredentialsExhausted leaves it at 0, and the first attempt of the next
\* call uses the credential at the index the previous call left.
C25_IndexPersistsAcrossCalls ==
    [][\A c \in Calls :
        /\ (CallReturns(c) /\ gresult'[c] # AllCredentialsExhausted) =>
                currentApiKeyIndex' = gkey[c]
        /\ (CallReturns(c) /\ gresult'[c] = AllCredentialsExhausted) =>
                currentApiKeyIndex' = 0
        /\ CallBegins(c) =>
                /\ gattempts'[c] = 1
                /\ gkey'[c] = currentApiKeyIndex
                /\ currentApiKeyIndex' = currentApiKeyIndex]_vars

\* a call makes its first attempt with the second credential, where an
\* earlier call that was rate limited once and then answered left the index
C25_Witness ==
    \E c \in Calls :
        /\ gpc[c] = "fetching"
        /\ gattempts[c] = 1
        /\ gkey[c] = 1
        /\ currentApiKeyIndex = 1

\* C26: when calls interleave on the shared rotation state of a client with
\* N >= 1 credentials, each call makes at most N fetches, and a call whose
\* fetch is answered 429 retries or returns AllCredentialsExhausted: it
\* never returns an UpstreamError carrying the status 429.
C26_InterleavedCallsStayBounded ==
    \A c \in Calls :
        nKeys >= 1 =>
            /\ gattempts[c] <= nKeys
            /\ gresult[c] # UpstreamError(429)

(***************************************************************************)
(* Properties of the entries buildFileTree leaves out                      *)
(***************************************************************************)
\* the places of the hierarchy (a position of the root array, or of the
\* children array of a node the root reaches) that hold a node of this path
PlacesOf(tree, path) ==
    {<<0, p>> : p \in {q \in 1..Len(tree.root) :
                        tree.nodes[tree.root[q]].path = path}}
    \cup UNION {{<<k, p>> : p \in {q \in 1..Len(tree.nodes[k].children.list) :
                        tree.nodes[tree.nodes[k].children.list[q]].path = path}} :
                k \in Hierarchy(tree)}

\* no folder entry of the listing has this path
NoFolderAt(items, path) ==
    ~\E j \in 1..Len(items) : items[j].path = path /\ items[j].type = "tree"

\* the entry is below the top level and its parent folder is not listed
ParentMissing(items, path) ==
    /\ ParentPathOf(path) # <<>>
    /\ NoFolderAt(items, ParentPathOf(path))

\* the path and the paths of the folders above it
SelfAndAncestors(path) ==
    {SubSeq(path, 1, n) : n \in {m \in 1..Len(path) :
                                    m = Len(path) \/ path[m + 1] = "/"}}

\* C28 (as stated): an entry is absent from the hierarchy exactly when its
\* parent path is non-empty and no folder entry with that path is listed;
\* every other entry occurs exactly once, and the hierarchy has no more
\* nodes than the listing has entries.
C28_OmittedIffParentMissing ==
    tbuilt =>
        /\ \A i \in 1..Len(titems) :
            Cardinality(PlacesOf(ttree, titems[i].path)) =
                IF ParentMissing(titems, titems[i].path) THEN 0 ELSE 1
        /\ Cardinality(Hierarchy(ttree)) <= Len(titems)

\* C28 (amended): an entry is absent from the hierarchy exactly when the
\* entry itself or one of the folders above it is below the top level and
\* has no folder entry for its parent path in the listing; every other
\* entry occurs exactly once, and the hierarchy has no more nodes than the
\* listing has entries.
C28_OmittedIffAncestorMissing ==
    tbuilt =>
        /\ \A i \in 1..Len(titems) :
            Cardinality(PlacesOf(ttree, titems[i].path)) =
                IF \E q \in SelfAndAncestors(titems[i].path) :
                        ParentMissing(titems, q)
                THEN 0 ELSE 1
        /\ Cardinality(Hierarchy(ttree)) <= Len(titems)

\* a/b/c and its folder a/b are listed without the folder a: both are left
\* out, and the top-level file b is the whole hierarchy
C28_Witness ==
    /\ tbuilt
    /\ Len(titems) = 3
    /\ \E i \in 1..3 : titems[i].path = <<"a", "/", "b", "/", "c">> /\ titems[i].type = "blob"
    /\ \E i \in 1..3 : titems[i].path = <<"a", "/", "b">> /\ titems[i].type = "tree"
    /\ \E i \in 1..3 : titems[i].path = <<"b">> /\ titems[i].type = "blob"
    /\ Len(ttree.root) = 1
    /\ Cardinality(Hierarchy(ttree)) = 1
    /\ PlacesOf(ttree, <<"a", "/", "b", "/", "c">>) = {}

(***************************************************************************)
(* Properties of the repository form                                       *)
(***************************************************************************)
\* C29: while isLoading is true a submission of the form changes nothing,
\* so at most one fetch of the tree endpoint is outstanding; the step in
\* which the fetch settles sets isLoading to false; it sets repoInfo when
\* the response is ok and on a failure leaves repoInfo null and sets the
\* error; no other step sets repoInfo.
C29_OneTreeRequestAtATime ==
    /\ [](treeFetches <= 1)
    /\ [][/\ (isLoading /\ \E url \in UrlTexts : HandleSubmit(url)) =>
                UNCHANGED <<isLoading, treeFetches, homeError, repoInfo>>
          /\ treeFetches' < treeFetches =>
                /\ ~isLoading'
                /\ IF failed' = NoneFailed
                   THEN repoInfo'.loaded /\ homeError' = homeError
                   ELSE /\ repoInfo' = repoInfo
                        /\ ~repoInfo'.loaded
                        /\ homeError' # Undef
          /\ repoInfo' # repoInfo =>
                /\ treeFetches' < treeFetches
                /\ failed' = NoneFailed]_vars

\* a tree request failed with a response that carried no error text: the
\* form shows the fallback message and no repository is set
C29_Witness ==
    /\ failed = [kind |-> "tree", by |-> "handleSubmit"]
    /\ homeError = "Failed to fetch repository"
    /\ ~isLoading
    /\ treeFetches = 0
    /\ ~repoInfo.loaded

(***************************************************************************)
(* Properties of a run of generateDocumentation without key files          *)
(***************************************************************************)
\* C30: a run of generateDocumentation whose key-file collection yields no
\* file content issues no outline request and no content request and ends
\* with the error set and isGenerating and isGeneratingContent false: the
\* outline request is issued only with at least one key file, the content
\* requests only after the outline was answered, and a run that ends at the
\* collection ends that way.
C30_NoKeyFilesNoRequests ==
    [][/\ (batch.pc # "outline" /\ batch'.pc = "outline") =>
             /\ batch.pc \in {"mounted", "done", "keyFiles"}
             /\ Len(batch'.keyFiles) > 0
             /\ docState'.error = Undef
       /\ (batch.pc # "content" /\ batch'.pc = "content") => batch.pc = "outline"
       /\ (batch.pc \in {"mounted", "keyFiles"} /\ batch'.pc # batch.pc) =>
             \/ batch'.pc \in {"keyFiles", "outline"}
             \/ /\ batch' = BatchDone
                /\ docState'.error = "No key files found to generate documentation"
                /\ ~docState'.isGenerating
                /\ ~docState'.isGeneratingContent]_vars

\* every fetch of a key file failed, the last one in the step before: the
\* run has ended with the error
C30_Witness ==
    /\ batch = BatchDone
    /\ failed = [kind |-> "keyFile", by |-> "generateDocumentation"]
    /\ docState.error = "No key files found to generate documentation"
    /\ ~docState.isGenerating
    /\ ~docState.isGeneratingContent
    /\ docState.chapters = <<>>

(***************************************************************************)
(* Properties of the file shown in the main pane                           *)
(***************************************************************************)
\* C27: the file shown is the one the user selected last: once every
\* response of fetchFileContent has arrived, the main pane holds the file
\* clicked last, loaded or with its error, whatever the order in which the
\* responses arrived.
C27_LastSelectedFileIsShown ==
    (/\ selected # <<>>
     /\ \A v \in Views : views[v].pc = "idle") =>
        /\ activeContent.type = "file"
        /\ activeContent.fileNode = selected
        /\ ~activeContent.isLoading

====
